---- MODULE Spec2Model ----
(***************************************************************************)
(* Model of the copula engine of midr (src/src/midr/archimedean.py).       *)
(*                                                                         *)
(* Every operation of the engine is a function of its arguments.  The     *)
(* state machine below records one call at a time: the operation called   *)
(* (op), its arguments (args), the locals of the call the properties      *)
(* speak about (loc) and its outcome (ret).                               *)
(*                                                                         *)
(* Floating point values are modelled as fixed point numbers with Scale   *)
(* units per 1.0, extended with the IEEE special values NaN, +inf and     *)
(* -inf, which numpy produces (with a warning, not an exception) where    *)
(* Python's own float arithmetic raises.  As an IEEE result too large for *)
(* the format is +-inf, a result of magnitude FxMax / Scale or more is    *)
(* +-inf in the model.                                                     *)
(***************************************************************************)
EXTENDS Integers, Sequences, FiniteSets, TLC

VARIABLES op, args, loc, ret, heap

vars == <<op, args, loc, ret, heap>>

(***************************************************************************)
(* Bounds of the model.                                                    *)
(***************************************************************************)
\* a matrix U has n >= 1 rows and d >= 1 columns with n * d <= MaxCells
MaxCells == 4
\* entries of U are k / Grid for k in 1..Grid (1.0 included: the engine
\* does not reject it)
Grid == 3
\* longest vector handed to lsum / lssum
MaxLen == 2
\* largest n of eulerian_all(n)
MaxN == 10
\* largest order n = -s of polylog
MaxOrder == 3
\* candidate thetas of the optimizer are a + b * 1e-14 with |b| <= MaxTiny
MaxTiny == 1
\* most rows of a matrix handed to pdf_clayton or pdf_frank
MaxRows == 2

(***************************************************************************)
(* Fixed point arithmetic: the integer v stands for the real v / Scale.   *)
(***************************************************************************)
Scale == 10 * 100

\* ln(2) in fixed point
Ln2 == (693 * Scale) \div 1000

Abs(i) == IF i < 0 THEN -i ELSE i

\* finite values have a magnitude below FxMax; larger results overflow
FxMax == 2^30
IntMax == (2^30 - 1) * 2 + 1
Overflow == -1

\* the fixed point product of the magnitudes a >= b >= 0, or Overflow
MulMagOrd(a, b) ==
    IF b = 0 THEN 0
    ELSE IF b >= 2^21 THEN Overflow
    ELSE IF a \div Scale > (FxMax - 1) \div b THEN Overflow
    ELSE LET val == (a \div Scale) * b + ((a % Scale) * b) \div Scale
         IN  IF val >= FxMax THEN Overflow ELSE val

MulMag(a, b) == IF a >= b THEN MulMagOrd(a, b) ELSE MulMagOrd(b, a)

\* the fixed point quotient of the magnitudes a >= 0 and b > 0, or Overflow
DivMag(a, b) ==
    LET q == a \div b
        r == a % b
    IN  IF q >= FxMax \div Scale THEN Overflow
        ELSE LET frac == IF r <= IntMax \div Scale THEN (r * Scale) \div b
                         ELSE r \div (b \div Scale)
             IN  q * Scale + frac

\* the fixed point product of small operands, rounded toward zero
MulFx(i, j) ==
    IF (i >= 0) = (j >= 0) THEN (Abs(i) * Abs(j)) \div Scale
    ELSE -((Abs(i) * Abs(j)) \div Scale)

RECURSIVE FxLog(_)
\* ln(m / Scale) * Scale for m > 0: halve or double into [1, 2), then the
\* series ln(f) = 2 (z + z^3/3 + z^5/5), z = (f - 1) / (f + 1)
FxLog(m) ==
    IF m >= 2 * Scale THEN Ln2 + FxLog(m \div 2)
    ELSE IF m < Scale THEN FxLog(2 * m) - Ln2
    ELSE LET z  == ((m - Scale) * Scale) \div (m + Scale)
             z2 == MulFx(z, z)
             z3 == MulFx(z2, z)
             z5 == MulFx(z3, z2)
         IN  2 * (z + z3 \div 3 + z5 \div 5)

RECURSIVE FxExp(_)
\* exp(v / Scale) * Scale: bring v into [0, ln 2), then the Taylor series
FxExp(v) ==
    IF v >= Ln2 THEN 2 * FxExp(v - Ln2)
    ELSE IF v < 0 THEN FxExp(v + Ln2) \div 2
    ELSE LET v2 == MulFx(v, v)
             v3 == MulFx(v2, v)
             v4 == MulFx(v3, v)
         IN  Scale + v + v2 \div 2 + v3 \div 6 + v4 \div 24

(***************************************************************************)
(* Floating point values: finite numbers and the IEEE special values.     *)
(***************************************************************************)
F(v) == [k |-> "fin", v |-> v]
NaN  == [k |-> "nan", v |-> 0]
PInf == [k |-> "inf", v |-> 1]
NInf == [k |-> "inf", v |-> -1]

IsFin(a) == a.k = "fin"
IsNaN(a) == a.k = "nan"
IsInf(a) == a.k = "inf"

Sgn(i) == IF i > 0 THEN 1 ELSE IF i < 0 THEN -1 ELSE 0

\* a > b, a >= b, a < b, a <= b: every comparison with NaN is False
Ord(a) == IF IsInf(a) THEN a.v * FxMax ELSE a.v
fgt(a, b) == ~IsNaN(a) /\ ~IsNaN(b) /\ Ord(a) > Ord(b)
fge(a, b) == ~IsNaN(a) /\ ~IsNaN(b) /\ Ord(a) >= Ord(b)
flt(a, b) == fgt(b, a)
fle(a, b) == fge(b, a)

fneg(a) ==
    IF IsNaN(a) THEN NaN
    ELSE IF IsInf(a) THEN [k |-> "inf", v |-> -a.v]
    ELSE F(-a.v)

fadd(a, b) ==
    IF IsNaN(a) \/ IsNaN(b) THEN NaN
    ELSE IF IsInf(a) /\ IsInf(b) THEN (IF a.v = b.v THEN a ELSE NaN)
    ELSE IF IsInf(a) THEN a
    ELSE IF IsInf(b) THEN b
    ELSE IF Abs(a.v + b.v) >= FxMax
         THEN [k |-> "inf", v |-> Sgn(a.v + b.v)]
    ELSE F(a.v + b.v)

fsub(a, b) == fadd(a, fneg(b))

fmul(a, b) ==
    IF IsNaN(a) \/ IsNaN(b) THEN NaN
    ELSE IF IsInf(a) \/ IsInf(b)
         THEN (IF Sgn(a.v) * Sgn(b.v) = 0 THEN NaN
               ELSE [k |-> "inf", v |-> Sgn(a.v) * Sgn(b.v)])
    ELSE IF MulMag(Abs(a.v), Abs(b.v)) = Overflow
         THEN [k |-> "inf", v |-> Sgn(a.v) * Sgn(b.v)]
    ELSE F(Sgn(a.v) * Sgn(b.v) * MulMag(Abs(a.v), Abs(b.v)))

\* numpy's float64 division: x / 0 is +-inf, 0 / 0 is NaN (a warning)
fdiv(a, b) ==
    IF IsNaN(a) \/ IsNaN(b) THEN NaN
    ELSE IF IsInf(a) /\ IsInf(b) THEN NaN
    ELSE IF IsInf(a) THEN [k |-> "inf", v |-> a.v * (IF b.v < 0 THEN -1 ELSE 1)]
    ELSE IF IsInf(b) THEN F(0)
    ELSE IF b.v = 0 THEN (IF a.v = 0 THEN NaN
                          ELSE [k |-> "inf", v |-> Sgn(a.v)])
    ELSE IF DivMag(Abs(a.v), Abs(b.v)) = Overflow
         THEN [k |-> "inf", v |-> Sgn(a.v) * Sgn(b.v)]
    ELSE F(Sgn(a.v) * Sgn(b.v) * DivMag(Abs(a.v), Abs(b.v)))

\* np.log: log(0) is -inf and log of a negative number is NaN (a warning)
flog(a) ==
    IF IsNaN(a) THEN NaN
    ELSE IF IsInf(a) THEN (IF a.v > 0 THEN PInf ELSE NaN)
    ELSE IF a.v > 0 THEN F(FxLog(a.v))
    ELSE IF a.v = 0 THEN NInf
    ELSE NaN

\* the largest argument whose exponential is below FxMax; below -ExpMax the
\* exponential is below the resolution and FxExp gives 0
ExpMax == 13 * Scale

\* np.exp
fexp(a) ==
    IF IsNaN(a) THEN NaN
    ELSE IF IsInf(a) THEN (IF a.v > 0 THEN PInf ELSE F(0))
    ELSE IF a.v > ExpMax THEN PInf
    ELSE IF a.v < -ExpMax THEN F(0)
    ELSE F(FxExp(a.v))

\* np.abs
fabs(a) == IF IsFin(a) THEN F(Abs(a.v)) ELSE IF IsInf(a) THEN PInf ELSE NaN

\* np.log1p, np.expm1
flog1p(a) == flog(fadd(F(Scale), a))
fexpm1(a) == fsub(fexp(a), F(Scale))

\* x ** p of numpy: x ** 0 is 1 for every x; otherwise exp(p log x)
fpow(x, p) ==
    IF IsFin(p) /\ p.v = 0 THEN F(Scale)
    ELSE IF IsFin(p) /\ p.v = Scale THEN x
    ELSE IF IsFin(x) /\ x.v = 0
         THEN (IF fgt(p, F(0)) THEN F(0) ELSE IF flt(p, F(0)) THEN PInf ELSE NaN)
    ELSE fexp(fmul(p, flog(x)))

\* the integer i as a float
Num(i) == F(i * Scale)

\* the outcome of a call: a returned value or a raised exception
Returned(v) == [outcome |-> "return", val |-> v, err |-> "none"]
Raised(e) == [outcome |-> "raise", val |-> <<>>, err |-> e]

(***************************************************************************)
(* Python and numpy helpers over vectors (sequences).                     *)
(***************************************************************************)
RECURSIVE PyMaxFrom(_, _, _)
PyMaxFrom(s, i, cur) ==
    IF i > Len(s) THEN cur
    ELSE PyMaxFrom(s, i + 1, IF fgt(s[i], cur) THEN s[i] ELSE cur)

\* the builtin max over a non-empty iterable: the first element, replaced
\* by every later element that compares greater
PyMax(s) == PyMaxFrom(s, 2, s[1])

RECURSIVE NpSumFrom(_, _)
NpSumFrom(s, i) == IF i > Len(s) THEN F(0) ELSE fadd(s[i], NpSumFrom(s, i + 1))

\* np.sum of a vector
NpSum(s) == NpSumFrom(s, 1)

\* np.log, np.exp and unary minus applied to a vector
LogVec(s) == [i \in 1..Len(s) |-> flog(s[i])]
ExpVec(s) == [i \in 1..Len(s) |-> fexp(s[i])]
NegVec(s) == [i \in 1..Len(s) |-> fneg(s[i])]

(***************************************************************************)
(* lsum, archimedean.py:24-32                                              *)
(***************************************************************************)
\* variant: line 30 taking the log of the absolute values
lsum_abs(x) ==
    LET lx    == [i \in 1..Len(x) |-> flog(fabs(x[i]))]
        x_max == PyMax(lx)
    IN  fadd(x_max,
             flog(NpSum([i \in 1..Len(x) |-> fexp(fsub(lx[i], x_max))])))

lsum(x) ==
    LET lx    == [i \in 1..Len(x) |-> flog(x[i])]
        x_max == PyMax(lx)
    IN  fadd(x_max,
             flog(NpSum([i \in 1..Len(x) |-> fexp(fsub(lx[i], x_max))])))

(***************************************************************************)
(* diag_copula, archimedean.py:101-104                                     *)
(***************************************************************************)
\* The array that receives element stores: np.empty_like and np.zeros
\* allocate a new array, while a slice such as u_values[:, 0] is a view whose
\* elements are those of u_values.
NewArray == "new"
ViewOfColumn0 == "view"

\* u_values after the stores y[i] = vals[i] for every row i
AfterStores(u_values, y, vals) ==
    IF y = ViewOfColumn0
    THEN [i \in 1..Len(u_values) |->
             [j \in 1..Len(u_values[i]) |->
                 IF j = 1 THEN vals[i] ELSE u_values[i][j]]]
    ELSE u_values

\* variant: the first element of each row in place of its maximum
diag_copula_first(u_values) == [i \in 1..Len(u_values) |-> u_values[i][1]]

diag_copula(u_values) == [i \in 1..Len(u_values) |-> PyMax(u_values[i])]

\* variant: y bound to the slice u_values[:, 0] instead of a new array
diag_copula_u_view(u_values) ==
    AfterStores(u_values, ViewOfColumn0, diag_copula(u_values))

\* u_values after diag_copula: line 101 allocates y, line 103 stores into it
diag_copula_u(u_values) ==
    AfterStores(u_values, NewArray, diag_copula(u_values))

NRows(u_values) == Len(u_values)
NCols(u_values) == Len(u_values[1])

(***************************************************************************)
(* dmle_copula_gumbel, archimedean.py:398-402.  raw is the value of theta *)
(* after line 401, ret the value returned by line 402.                    *)
(***************************************************************************)
\* variant: line 402 returning theta without the clamp
dmle_copula_gumbel_noclamp(u_values) ==
    LET t1 == fsub(flog(Num(NRows(u_values))),
                   lsum(NegVec(LogVec(diag_copula(u_values)))))
        t2 == fdiv(flog(Num(NCols(u_values))), t1)
    IN  [raw |-> t2, ret |-> t2]

\* variant: line 402 as max([1.0, theta])
dmle_copula_gumbel_swapped(u_values) ==
    LET t1 == fsub(flog(Num(NRows(u_values))),
                   lsum(NegVec(LogVec(diag_copula(u_values)))))
        t2 == fdiv(flog(Num(NCols(u_values))), t1)
    IN  [raw |-> t2, ret |-> PyMax(<<F(Scale), t2>>)]

dmle_copula_gumbel(u_values) ==
    LET t1 == fsub(flog(Num(NRows(u_values))),
                   lsum(NegVec(LogVec(diag_copula(u_values)))))
        t2 == fdiv(flog(Num(NCols(u_values))), t1)
    IN  [raw |-> t2, ret |-> PyMax(<<t2, F(Scale)>>)]

(***************************************************************************)
(* lssum, archimedean.py:35-49                                             *)
(***************************************************************************)
RECURSIVE InsertSorted(_, _)
\* v put into the ascending vector s
InsertSorted(s, v) ==
    IF Len(s) = 0 THEN <<v>>
    ELSE IF fle(v, s[1]) THEN <<v>> \o s
    ELSE <<s[1]>> \o InsertSorted(Tail(s), v)

RECURSIVE NpSort(_)
\* np.sort of a vector without NaN: ascending
NpSort(s) == IF Len(s) = 0 THEN s ELSE InsertSorted(NpSort(Tail(s)), s[1])

RECURSIVE lssum_loop(_, _, _, _)
\* lines 44-48: the term is added when b_i[i] >= 0.0, subtracted otherwise
lssum_loop(b_i, b_max, i, results) ==
    IF i > Len(b_i) THEN results
    ELSE lssum_loop(b_i, b_max, i + 1,
            IF fge(b_i[i], F(0))
            THEN fadd(results, fexp(fsub(b_i[i], b_max)))
            ELSE fsub(results, fexp(fsub(b_i[i], b_max))))

lssum(x_values) ==
    LET b_i   == NpSort([i \in 1..Len(x_values) |-> flog(fabs(x_values[i]))])
        b_max == PyMax(b_i)
    IN  fadd(b_max, flog(lssum_loop(b_i, b_max, 1, F(0))))

(***************************************************************************)
(* log1mexp, archimedean.py:52-69                                          *)
(***************************************************************************)
\* variant: the test of mapping_function as x_val < np.log(2.0)
log1mexp_branch_lt(x_val) ==
    IF flt(x_val, flog(Num(2))) THEN "expm1" ELSE "exp"

\* the test of mapping_function (line 63)
log1mexp_branch(x_val) ==
    IF fle(x_val, flog(Num(2))) THEN "expm1" ELSE "exp"

\* the two forms (lines 64 and 66)
log1mexp_expm1(x_val) == flog(fneg(fexpm1(fneg(x_val))))
log1mexp_exp(x_val) == flog1p(fneg(fexp(fneg(x_val))))

\* mapping_function, applied by np.vectorize to each element
log1mexp(x_val) ==
    IF log1mexp_branch(x_val) = "expm1"
    THEN log1mexp_expm1(x_val)
    ELSE log1mexp_exp(x_val)

(***************************************************************************)
(* eulerian, archimedean.py:659-683: dp_row(i, m) is row i of the table   *)
(* dp, columns 0..m, after the loops                                       *)
(***************************************************************************)
\* variant: the recurrence with the factor (i - j + 1)
RECURSIVE dp_row_shifted(_, _)
dp_row_shifted(i, m) ==
    IF i = 0 THEN [j \in 0..m |-> 0]
    ELSE LET prev == dp_row_shifted(i - 1, m)
         IN  [j \in 0..m |->
                 IF i > j
                 THEN (IF j = 0 THEN 1
                       ELSE ((i - j + 1) * prev[j - 1]) + ((j + 1) * prev[j]))
                 ELSE 0]

RECURSIVE dp_row(_, _)
dp_row(i, m) ==
    IF i = 0 THEN [j \in 0..m |-> 0]
    ELSE LET prev == dp_row(i - 1, m)
         IN  [j \in 0..m |->
                 IF i > j
                 THEN (IF j = 0 THEN 1
                       ELSE ((i - j) * prev[j - 1]) + ((j + 1) * prev[j]))
                 ELSE 0]

eulerian(n, m) == dp_row(n, m)[m]

(***************************************************************************)
(* eulerian_all, archimedean.py:685-698: a float vector of length n       *)
(***************************************************************************)
\* variant: the loop over range(1, n + 1)
eulerian_all_from_one(n) == [i \in 1..n |-> eulerian(n, i)]

eulerian_all(n) == [i \in 1..n |-> eulerian(n, i - 1)]

(***************************************************************************)
(* polyneval, archimedean.py:700-710: np.polyval per element of x         *)
(***************************************************************************)
RECURSIVE polyval_from(_, _, _, _)
\* np.polyval: y = 0; for pv in p: y = y * x + pv
polyval_from(p, x, i, y) ==
    IF i > Len(p) THEN y
    ELSE polyval_from(p, x, i + 1, fadd(fmul(y, x), Num(p[i])))

polyneval(coef, x) == [i \in 1..Len(x) |-> polyval_from(coef, x[i], 1, F(0))]

(***************************************************************************)
(* polylog, archimedean.py:712-730                                         *)
(***************************************************************************)
polylog(z_arg, s, is_log_z) ==
    LET w   == z_arg
        z   == IF is_log_z THEN ExpVec(w) ELSE z_arg
        n   == -s
        Eun == eulerian_all(n)
        p   == polyneval(Eun, z)
    IN  IF is_log_z
        THEN [i \in 1..Len(z) |->
                 fsub(fadd(flog(p[i]), w[i]),
                      fmul(Num(n + 1), log1mexp(fneg(w[i]))))]
        ELSE [i \in 1..Len(z) |->
                 fsub(fadd(flog(p[i]), flog(z[i])),
                      fmul(Num(n + 1), flog1p(fneg(z[i]))))]

(***************************************************************************)
(* ipsi_clayton, archimedean.py:226-228 (is_log = False), per element     *)
(***************************************************************************)
\* np.sign
fsign(a) == IF IsNaN(a) THEN NaN ELSE Num(Sgn(a.v))

\* np.maximum: NaN when either argument is NaN
fmaximum(a, b) ==
    IF IsNaN(a) \/ IsNaN(b) THEN NaN ELSE IF fge(a, b) THEN a ELSE b

\* log1pexp: np.logaddexp(0.0, x), which is x itself once exp(x) overflows
log1pexp(x) ==
    IF IsFin(x) /\ x.v > ExpMax THEN x ELSE flog1p(fexp(x))

psi_clayton(x, theta) ==
    fpow(fmaximum(fadd(F(Scale), fmul(fsign(theta), x)), F(0)),
         fdiv(F(-Scale), theta))

\* the branch of mapping_function that ipsi_frank takes for x
ipsi_frank_branch(x, theta) ==
    IF fle(x, fmul(F(Scale \div 100), fabs(theta))) THEN 1
    ELSE IF fgt(fexp(fneg(theta)), F(0))
            /\ flt(fabs(fsub(theta, fmul(x, theta))), F(Scale \div 2))
         THEN 2
    ELSE 3

ipsi_frank(x, theta) ==
    LET em1 == fexpm1(fneg(theta))
        br  == ipsi_frank_branch(x, theta)
    IN  IF br = 1
        THEN fneg(flog(fdiv(fexpm1(fneg(fmul(x, theta))), em1)))
        ELSE IF br = 2
        THEN fneg(flog1p(fdiv(fmul(fexp(fneg(theta)),
                                   fexpm1(fsub(theta, fmul(x, theta)))),
                              em1)))
        ELSE fneg(flog1p(fdiv(fsub(fexp(fneg(fmul(x, theta))),
                                   fexp(fneg(theta))),
                              em1)))

\* np.log(np.finfo(float).eps), about -36.04
LogEps == F(-(36 * Scale))

\* variant: the third test as theta <= log(eps)
psi_frank_branch_le(theta) ==
    IF fgt(theta, F(0)) THEN 1
    ELSE IF IsFin(theta) /\ theta.v = 0 THEN 2
    ELSE IF fle(theta, LogEps) THEN 3
    ELSE 4

\* the tests of lines 533-538, in their order
psi_frank_branch(theta) ==
    IF fgt(theta, F(0)) THEN 1
    ELSE IF IsFin(theta) /\ theta.v = 0 THEN 2
    ELSE IF flt(theta, LogEps) THEN 3
    ELSE 4

\* the four forms (lines 534, 536, 538, 539)
psi_frank_form(u, theta, branch) ==
    IF branch = 1
    THEN fdiv(fneg(log1mexp(fsub(u, log1mexp(theta)))), theta)
    ELSE IF branch = 2
    THEN fexp(fneg(u))
    ELSE IF branch = 3
    THEN fdiv(fneg(log1pexp(fneg(fadd(u, theta)))), theta)
    ELSE fdiv(fneg(flog1p(fmul(fexp(fneg(u)), fexpm1(fneg(theta))))), theta)

psi_frank(u, theta) == psi_frank_form(u, theta, psi_frank_branch(theta))

ipsi_gumbel(u, theta) == fpow(fneg(flog(u)), theta)

psi_gumbel(u, theta) == fexp(fneg(fpow(u, fdiv(F(Scale), theta))))

diag_pdf_clayton(u_values, theta, is_log) ==
    LET y  == diag_copula(u_values)
        d  == Num(NCols(u_values))
        d1 == fsub(d, F(Scale))
        e  == fadd(F(Scale), fdiv(F(Scale), theta))
    IN  [i \in 1..Len(y) |->
            LET w == fmul(d1, fsub(F(Scale), fpow(y[i], theta)))
            IN  IF is_log
                THEN fsub(flog(d), fmul(e, flog1p(w)))
                ELSE fmul(d, fpow(fadd(F(Scale), w), fneg(e)))]

\* lines 776-785 of pdf_frank: the theta != 0 log-density of every row
pdf_frank_closed(u_values, theta) ==
    LET d     == NCols(u_values)
        n     == NRows(u_values)
        usum  == [i \in 1..n |-> NpSum(u_values[i])]
        lp    == log1mexp(theta)
        lpu   == [i \in 1..n |-> [j \in 1..d |->
                     log1mexp(fmul(theta, u_values[i][j]))]]
        lu    == [i \in 1..n |-> NpSum(lpu[i])]
        liarg == [i \in 1..n |->
                     fmul(fneg(fexpm1(fneg(theta))),
                          fexp(NpSum([j \in 1..d |-> fsub(lpu[i][j], lp)])))]
        li    == polylog(liarg, -(d - 1), FALSE)
    IN  [i \in 1..n |->
            fsub(fsub(fadd(fmul(Num(d - 1), flog(theta)), li[i]),
                      fmul(theta, usum[i])),
                 lu[i])]

\* variant: pdf_frank without the theta == 0.0 branch of line 772
pdf_frank_nobranch(u_values, theta, is_log) ==
    LET copula == pdf_frank_closed(u_values, theta)
    IN  [copula    |-> IF is_log THEN copula ELSE ExpVec(copula),
         polylog_s |-> <<-(NCols(u_values) - 1)>>]

\* pdf_frank: the returned vector and the orders s of its polylog calls
pdf_frank(u_values, theta, is_log) ==
    LET zero   == IsFin(theta) /\ theta.v = 0
        copula == IF zero
                  THEN [i \in 1..NRows(u_values) |-> F(0)]
                  ELSE pdf_frank_closed(u_values, theta)
    IN  [copula    |-> IF is_log THEN copula ELSE ExpVec(copula),
         polylog_s |-> IF zero THEN <<>> ELSE <<-(NCols(u_values) - 1)>>]

\* variant: the log-scale branch of line 929 with log(d) not scaled by alpha
diag_pdf_gumbel_logd(u_values, theta, is_log) ==
    LET y     == diag_copula(u_values)
        d     == Num(NCols(u_values))
        alpha == fdiv(F(Scale), theta)
        da    == fpow(d, alpha)
    IN  [i \in 1..Len(y) |->
            IF is_log
            THEN fadd(fmul(fsub(da, F(Scale)), flog(y[i])), flog(d))
            ELSE fmul(da, fpow(y[i], fsub(da, F(Scale))))]

diag_pdf_gumbel(u_values, theta, is_log) ==
    LET y     == diag_copula(u_values)
        d     == Num(NCols(u_values))
        alpha == fdiv(F(Scale), theta)
        da    == fpow(d, alpha)
    IN  [i \in 1..Len(y) |->
            IF is_log
            THEN fadd(fmul(fsub(da, F(Scale)), flog(y[i])),
                      fmul(alpha, flog(d)))
            ELSE fmul(da, fpow(y[i], fsub(da, F(Scale))))]

\* log_ddelta of max_diag_pdf, the objective handed to the optimizer;
\* diag_pdf names the function passed in
log_ddelta(diag_pdf, theta, u_val) ==
    fneg(NpSum(IF diag_pdf = "diag_pdf_clayton"
               THEN diag_pdf_clayton(u_val, theta, TRUE)
               ELSE diag_pdf_gumbel(u_val, theta, TRUE)))


ipsi_clayton(x, theta) ==
    fmul(fsign(theta), fsub(fpow(x, fneg(theta)), F(Scale)))

(***************************************************************************)
(* pdf_clayton, archimedean.py:303-328.  theta is a float value with the  *)
(* kind of number the caller passed: a Python float ("float") or a numpy   *)
(* scalar ("float64").  1.0 / theta at line 315 raises ZeroDivisionError   *)
(* for a Python float 0.0 and is inf for a numpy scalar.                  *)
(***************************************************************************)
RowSum(row) == NpSum(row)

\* line 306: t, the row sums of ipsi_clayton(u_values, theta)
clayton_t(u_values, theta) ==
    [i \in 1..NRows(u_values) |->
        RowSum([j \in 1..NCols(u_values) |->
                   ipsi_clayton(u_values[i][j], theta)])]

\* variant: the row loop without the test t[i] < 1.0 of line 318
pdf_clayton_row_nocheck(theta, is_log, t_i, lu_i, const_a, const_b, const_c_i, const_d, sum_seq) ==
    LET lg == IF flt(theta, F(0))
              THEN fsub(fsub(const_a, fmul(const_b, lu_i)),
                        fmul(const_d, const_c_i))
              ELSE IF fgt(theta, F(0))
              THEN fsub(fsub(sum_seq, fmul(const_b, lu_i)),
                        fmul(const_d, const_c_i))
              ELSE F(0)
    IN  IF is_log THEN lg ELSE fexp(lg)

pdf_clayton_row(theta, is_log, t_i, lu_i, const_a, const_b, const_c_i, const_d, sum_seq) ==
    LET lg == IF flt(theta, F(0))
              THEN (IF flt(t_i, F(Scale))
                    THEN fsub(fsub(const_a, fmul(const_b, lu_i)),
                              fmul(const_d, const_c_i))
                    ELSE NInf)
              ELSE IF fgt(theta, F(0))
              THEN fsub(fsub(sum_seq, fmul(const_b, lu_i)),
                        fmul(const_d, const_c_i))
              ELSE F(0)
    IN  IF is_log THEN lg ELSE fexp(lg)

pdf_clayton(u_values, theta, kind, is_log) ==
    LET d       == Num(NCols(u_values))
        t       == clayton_t(u_values, theta)
        lu      == [i \in 1..NRows(u_values) |->
                       RowSum(LogVec(u_values[i]))]
        const_a == flog1p(theta)
        const_b == fadd(F(Scale), theta)
        seq     == [i \in 1..(NCols(u_values) - 1) |->
                       flog1p(fmul(theta, Num(i)))]
        sum_seq == IF fgt(theta, F(0)) THEN NpSum(seq) ELSE F(0)
        const_c == [i \in 1..NRows(u_values) |->
                       IF fgt(theta, F(0)) THEN flog1p(t[i])
                       ELSE flog1p(fneg(t[i]))]
        const_d == fadd(d, fdiv(F(Scale), theta))
    IN  IF kind = "float" /\ theta.v = 0
        THEN Raised("ZeroDivisionError")
        ELSE Returned([i \in 1..NRows(u_values) |->
                          pdf_clayton_row(theta, is_log, t[i], lu[i], const_a,
                                          const_b, const_c[i], const_d,
                                          sum_seq)])

\* u_values after pdf_clayton: line 303 allocates dcopula, lines 319-327
\* store into it; nothing is stored when line 315 raises
pdf_clayton_u(u_values, r) ==
    IF r.outcome = "raise" THEN u_values
    ELSE AfterStores(u_values, NewArray, r.val)

(***************************************************************************)
(* pdf_gumbel, archimedean.py:933-1032                                     *)
(***************************************************************************)
\* np.floor, np.ceil
ffloor(a) == IF IsFin(a) THEN F((a.v \div Scale) * Scale) ELSE a
fceil(a) == fneg(ffloor(fneg(a)))

\* (-1.0) ** k for an integer-valued float k
PowMinusOne(k) == IF (k.v \div Scale) % 2 = 0 THEN F(Scale) ELSE F(-Scale)

\* variant: s_j without the assertion alpha_var <= 1.0
s_j_asserts_open(j, alpha_var, d_var) ==
    /\ flt(F(0), alpha_var)
    /\ fge(d_var, F(0)) /\ fle(F(0), Num(j))

\* the assertions of s_j (lines 981-983)
s_j_asserts(j, alpha_var, d_var) ==
    /\ flt(F(0), alpha_var)
    /\ fle(alpha_var, F(Scale))
    /\ fge(d_var, F(0)) /\ fle(F(0), Num(j))

\* variant: the sign of the alpha < 1 branch taken from floor(x)
s_j_floor(j, alpha_var, d_var) ==
    IF alpha_var = F(Scale)
    THEN (IF Num(j) = d_var THEN F(Scale)
          ELSE PowMinusOne(fsub(d_var, Num(j))))
    ELSE LET x == fmul(alpha_var, Num(j))
         IN  IF x # ffloor(x) THEN PowMinusOne(fsub(Num(j), ffloor(x)))
             ELSE F(0)

\* s_j past its assertions (lines 984-994)
s_j(j, alpha_var, d_var) ==
    IF alpha_var = F(Scale)
    THEN (IF Num(j) = d_var THEN F(Scale)
          ELSE PowMinusOne(fsub(d_var, Num(j))))
    ELSE LET x == fmul(alpha_var, Num(j))
         IN  IF x # ffloor(x) THEN PowMinusOne(fsub(Num(j), fceil(x)))
             ELSE F(0)

RECURSIVE binom_from(_, _, _, _)
\* scipy.special.binom(n, k) for an integer k >= 0: the product over
\* i = 1..k of (i + n - k) / i, from factor i on
binom_from(n, k, i, acc) ==
    IF i > k THEN acc
    ELSE binom_from(n, k, i + 1,
                    fdiv(fmul(acc, fsub(fadd(Num(i), n), Num(k))), Num(i)))

binom(n, k) == binom_from(n, k, 1, F(Scale))

RECURSIVE IntFactorial(_)
IntFactorial(n) == IF n <= 1 THEN 1 ELSE n * IntFactorial(n - 1)

\* scipy.special.factorial
factorial(n) == Num(IntFactorial(n))

RECURSIVE poisson_sum(_, _, _, _)
\* the sum over i = 0..k of x^i / i!, from term i on; term is x^i / i!
poisson_sum(k, x, i, term) ==
    IF i > k THEN F(0)
    ELSE fadd(term, poisson_sum(k, x, i + 1, fdiv(fmul(term, x), Num(i + 1))))

\* scipy.stats.poisson.logcdf(k, x) for an integer k >= 0
poisson_logcdf(k, x) == fsub(flog(poisson_sum(k, x, 0, F(Scale))), x)

\* res[j-1] of log_polyg before the sign is applied (lines 1006-1010)
log_polyg_term(j, lx_var, alpha_var, d) ==
    LET x == fexp(lx_var)
    IN  fadd(fsub(fadd(fadd(fadd(flog(fabs(binom(fmul(alpha_var, Num(j)), d))),
                                 flog(factorial(d))),
                            fmul(Num(j), lx_var)),
                       x),
                  flog(factorial(j))),
             poisson_logcdf(d - j, x))

\* res as log_polyg hands it to lssum (line 1012): one signed term per j
log_polyg_res(lx_var, alpha_var, d) ==
    [j \in 1..d |->
        fmul(s_j(j, alpha_var, Num(d)),
             fexp(log_polyg_term(j, lx_var, alpha_var, d)))]

\* the sum over a row of line 1028: (theta - 1) * lmlu + mlu
gumbel_rowsum(u_row, theta) ==
    NpSum([j \in 1..Len(u_row) |->
              LET mlu == fneg(flog(u_row[j]))
              IN  fadd(fmul(fsub(theta, F(Scale)), flog(mlu)), mlu)])

\* dcopula of a row (lines 1025-1029) from lx and log_polyg's value
gumbel_dcopula(u_row, theta, alpha, lx_i, polyg) ==
    LET d == Num(Len(u_row))
    IN  fadd(fadd(fadd(fneg(fexp(lx_i)), fmul(d, flog(theta))),
                  gumbel_rowsum(u_row, theta)),
             fsub(polyg, fdiv(fmul(d, lx_i), alpha)))

\* lx of a row (lines 1020-1024): alpha * lsum(ipsi_gumbel(row))
gumbel_lx(u_row, theta, alpha) ==
    fmul(alpha, lsum([j \in 1..Len(u_row) |-> ipsi_gumbel(u_row[j], theta)]))

\* a row of pdf_gumbel from its lx and the vector res handed to lssum
pdf_gumbel_row_of(u_row, theta, alpha, lx_i, res_i) ==
    [lx |-> lx_i, res |-> res_i,
     dcopula |-> gumbel_dcopula(u_row, theta, alpha, lx_i, lssum(res_i))]

pdf_gumbel_row(u_row, theta, alpha, lx_i) ==
    pdf_gumbel_row_of(u_row, theta, alpha, lx_i,
                      log_polyg_res(lx_i, alpha, Len(u_row)))

\* the outcome of pdf_gumbel from its rows past the assertions
pdf_gumbel_of(rows, alpha, d, is_log) ==
    [ret |-> Returned([i \in 1..Len(rows) |->
                          IF is_log THEN rows[i].dcopula
                          ELSE fexp(rows[i].dcopula)]),
     s   |-> [j \in 1..d |-> s_j(j, alpha, Num(d))],
     lx  |-> [i \in 1..Len(rows) |-> rows[i].lx],
     res |-> [i \in 1..Len(rows) |-> rows[i].res]]

pdf_gumbel_alpha(u_values, theta, alpha, d, is_log) ==
    IF d = 0
    THEN [ret |-> Raised("ValueError"), s |-> <<>>, lx |-> <<>>, res |-> <<>>]
    ELSE IF ~s_j_asserts(1, alpha, Num(d))
    THEN [ret |-> Raised("AssertionError"), s |-> <<>>, lx |-> <<>>,
          res |-> <<>>]
    ELSE pdf_gumbel_of([i \in 1..NRows(u_values) |->
                           pdf_gumbel_row(u_values[i], theta, alpha,
                                          gumbel_lx(u_values[i], theta, alpha))],
                       alpha, d, is_log)

\* pdf_gumbel: its outcome, the signs s_j it used and, per row, lx and the
\* vector handed to lssum
pdf_gumbel(u_values, theta, is_log) ==
    pdf_gumbel_alpha(u_values, theta, fdiv(F(Scale), theta), NCols(u_values),
                     is_log)

(***************************************************************************)
(* diag_pdf_frank, archimedean.py:542-657                                  *)
(***************************************************************************)
\* delt_dcom (lines 584-595)
delt_dcom(x, theta, d) ==
    LET ep   == fdiv(fsub(fexp(fneg(x)), fexp(fsub(x, theta))),
                     fneg(fexpm1(fneg(x))))
        delt == fmul(fexp(fneg(x)), fadd(F(Scale), ep))
        d1   == fsub(d, F(Scale))
    IN  [delt |-> delt, dcom |-> fadd(d, fmul(d1, ep)),
         dcom_time |-> fmul(fadd(F(Scale), ep), delt), d1 |-> d1]

\* the last lines of the three formulas: log(d) - log(res) or d / res
diag_frank_ratio(d, res, is_log) ==
    IF is_log THEN fsub(flog(d), flog(res)) ELSE fdiv(d, res)

\* ddiagepoly2 (lines 597-610): the series cut after 2 terms
ddiagepoly2(x, theta, d, is_log) ==
    LET c   == delt_dcom(x, theta, d)
        res == fmul(fdiv(fmul(c.d1, fsub(d, Num(2))), Num(2)),
                    fadd(F(Scale), fmul(fdiv(fsub(d, Num(3)), Num(3)), c.delt)))
    IN  diag_frank_ratio(d, fadd(fmul(res, c.dcom_time), c.dcom), is_log)

\* ddiagepoly4 (lines 612-628): the series cut after 4 terms
ddiagepoly4(x, theta, d, is_log) ==
    LET c   == delt_dcom(x, theta, d)
        t5  == fadd(F(Scale), fmul(fdiv(fsub(d, Num(5)), Num(5)), c.delt))
        t4  == fadd(F(Scale),
                    fmul(fmul(fdiv(fsub(d, Num(4)), Num(4)), c.delt), t5))
        t3  == fadd(F(Scale),
                    fmul(fmul(fdiv(fsub(d, Num(3)), Num(3)), c.delt), t4))
        res == fmul(fdiv(fmul(fsub(d, F(Scale)), fsub(d, Num(2))), Num(2)), t3)
    IN  diag_frank_ratio(d, fadd(fmul(res, c.dcom_time), c.dcom), is_log)

\* ddiagem1 (lines 630-641): the closed exponential form
ddiagem1(x, theta, d, is_log) ==
    LET h   == fneg(fexpm1(fneg(theta)))
        ie  == fneg(fexpm1(fneg(x)))
        res == fsub(fpow(fdiv(h, ie), fsub(d, F(Scale))), ie)
    IN  IF is_log THEN fsub(fsub(flog(d), x), flog(res))
        ELSE fdiv(fmul(d, fexp(fneg(x))), res)

\* variant: the first test of mapping_function as x >= 25
diag_frank_branch_ge(x) ==
    IF fge(x, Num(25)) THEN "ddiagepoly2"
    ELSE IF flt(x, F(Scale \div 10)) THEN "ddiagem1"
    ELSE "ddiagepoly4"

\* mapping_function (lines 643-654): the formula chosen for x
diag_frank_branch(x) ==
    IF fgt(x, Num(25)) THEN "ddiagepoly2"
    ELSE IF flt(x, F(Scale \div 10)) THEN "ddiagem1"
    ELSE "ddiagepoly4"

\* diag_pdf_frank: per row the scaled diagonal value yt, the formula chosen
\* for it and the value it gives
diag_pdf_frank(u_values, theta, is_log) ==
    LET y  == diag_copula(u_values)
        d  == Num(NCols(u_values))
    IN  [i \in 1..Len(y) |->
            LET x == fmul(y[i], theta)
                b == diag_frank_branch(x)
            IN  [yt |-> x, branch |-> b,
                 val |-> IF b = "ddiagepoly2" THEN ddiagepoly2(x, theta, d, is_log)
                         ELSE IF b = "ddiagem1" THEN ddiagem1(x, theta, d, is_log)
                         ELSE ddiagepoly4(x, theta, d, is_log)]]

(***************************************************************************)
(* The estimator's theta.  Its constraints compare theta with 1e-14 and   *)
(* with 1000 or 745, so a theta is kept exactly as a + b * 1e-14 with a   *)
(* and b integers and |b| * 1e-14 < 1: the sign of such a number is the   *)
(* sign of a, or of b when a = 0.  A float subtraction never changes the  *)
(* sign of the exact difference, so the signs below are those the code    *)
(* computes.                                                               *)
(***************************************************************************)
T(a, b) == [k |-> "fin", a |-> a, b |-> b]
TNaN == [k |-> "nan", a |-> 0, b |-> 0]

tsub(x, y) == T(x.a - y.a, x.b - y.b)
tsign(x) == IF x.a # 0 THEN Sgn(x.a) ELSE Sgn(x.b)

\* the thetas the optimizer may try or report
Candidates ==
    {T(a, b) : a \in {-1, 0, 1, 744, 745, 746, 999, 1000, 1001},
               b \in (-MaxTiny)..MaxTiny}

(***************************************************************************)
(* The constraint lists of dmle_copula_clayton (archimedean.py:160-161)   *)
(* and dmle_copula_franck (archimedean.py:189-190): each entry is the     *)
(* 'fun' of an 'ineq' constraint, feasible where fun(x) >= 0.             *)
(***************************************************************************)
clayton_constraint ==
    << [x \in Candidates |-> T(0, 1)],
       [x \in Candidates |-> tsub(T(1000, 0), x)] >>

\* variant: the lower bound written as in the Clayton list
franck_constraint_const ==
    << [x \in Candidates |-> T(0, 1)],
       [x \in Candidates |-> tsub(T(745, 0), x)] >>

franck_constraint ==
    << [x \in Candidates |-> tsub(x, T(0, 1))],
       [x \in Candidates |-> tsub(T(745, 0), x)] >>

(***************************************************************************)
(* scipy.optimize.minimize as called at archimedean.py:125-129: the       *)
(* source fixes neither the iterate it ends at nor whether it reports     *)
(* success, so every pair is possible.                                     *)
(***************************************************************************)
minimize_results == [success : BOOLEAN, x : Candidates]

(***************************************************************************)
(* max_diag_pdf, archimedean.py:130-133, applied to the optimizer's       *)
(* result res                                                              *)
(***************************************************************************)
\* variant: res.x returned whatever res.success is
max_diag_pdf_always_x(res) == res.x

max_diag_pdf(res) == IF res.success THEN res.x ELSE TNaN

(***************************************************************************)
(* Inputs.                                                                 *)
(***************************************************************************)
UVals == {F((k * Scale) \div Grid) : k \in 1..Grid}

Shapes == {s \in (1..MaxCells) \X (1..MaxCells) : s[1] * s[2] <= MaxCells}

Matrices ==
    UNION {[1..s[1] -> [1..s[2] -> UVals]] : s \in Shapes}

\* the datasets handed to pdf_clayton, pdf_frank and diag_pdf_frank, which
\* compute their result row by row: at most MaxRows rows, the entries of a
\* row in ascending order
DensityMatrices ==
    UNION {{m \in [1..s[1] -> [1..s[2] -> UVals]] :
               \A i \in 1..s[1], j \in 1..(s[2] - 1) :
                   fle(m[i][j], m[i][j + 1])} :
              s \in {x \in Shapes : x[1] <= MaxRows}}

\* U is valid when every entry lies strictly inside (0, 1)
ValidU(u_values) ==
    \A i \in 1..NRows(u_values) : \A j \in 1..NCols(u_values) :
        /\ fgt(u_values[i][j], F(0))
        /\ flt(u_values[i][j], F(Scale))

\* vectors of length lo..MaxLen over the set S
Vectors(S, lo) == UNION {[1..n -> S] : n \in lo..MaxLen}

\* inputs of lsum: positive, zero and negative elements
LsumVals == {F(-Scale), F(0), F(Scale \div 2), F(Scale), F(2 * Scale)}

\* inputs of lssum: nonzero values of both signs, above and below 1
LssumVals == {F(-2 * Scale), F(-(Scale \div 2)), F(Scale \div 2), F(2 * Scale)}

\* arguments z of polylog, strictly inside (0, 1)
ZVals == {F((k * Scale) \div Grid) : k \in 1..(Grid - 1)}

\* thetas handed to pdf_clayton, as a Python float or a numpy scalar
ClaytonThetas ==
    {F(-Scale), F(-((3 * Scale) \div 4)), F(0), F(Scale \div 2)}
FrankThetas == {F(-Scale), F(0), F(Scale)}

GumbelThetas == {F(Scale), F(2 * Scale)}

\* arguments of the generators: u strictly inside (0, 1), theta feasible
OpenUVals == {u \in UVals : flt(u, F(Scale))}
ClaytonFeasible == {F(Scale \div 2), F(2 * Scale)}
FrankFeasible == {F(Scale), F(200 * Scale)}
GumbelFeasible == {F(Scale), F(2 * Scale)}

\* thetas handed to diag_pdf_frank: with the entries of U they put yt below
\* 0.1, at 0.1, between, at 25 and above 25
DiagFrankThetas == {F(Scale \div 10), Num(25), Num(50)}

\* arguments of ipsi_frank: the entries of U and two values at and below
\* 0.01; thetas below 1, at 1 and far above 1
IpsiXs == UVals \cup {F(Scale \div 200), F(Scale \div 100)}
IpsiThetas == {F(Scale \div 2), F(Scale), F(200 * Scale)}

\* arguments of psi_frank: thetas above 0, at 0, between log(eps) and 0, at
\* log(eps) and below it
PsiYs == {F(Scale \div 2), F(Scale), F(2 * Scale)}
PsiThetas == {F(Scale), F(0), F(-Scale), LogEps, F(-(37 * Scale))}

\* elements handed to log1mexp: below ln 2, at ln 2, just above and above;
\* flog(Num(2)) is Ln2
Log1mexpXs == {F(Scale \div 10), F(Ln2), F(Ln2 + 1), F(Scale)}

\* the matrices handed to pdf_gumbel: 1..MaxRows rows of 0..MaxCells equal
\* entries, the rows in ascending order; a row without columns makes lsum
\* raise (max of nothing)
GumbelMatrices ==
    UNION {{[i \in 1..n |-> [j \in 1..d |-> v[i]]] :
               v \in {w \in [1..n -> OpenUVals] :
                          \A i \in 1..(n - 1) : fle(w[i], w[i + 1])}} :
              n \in 1..MaxRows, d \in 0..MaxCells}

\* thetas handed to pdf_gumbel: alpha = 1 / theta is 2, 1, 0.8 and 0.5
GumbelPdfThetas ==
    {F(Scale \div 2), F(Scale), F((5 * Scale) \div 4), Num(2)}

FloatKinds == {"float", "float64"}

\* the kinds of a theta worth telling apart: line 315 is the only place
\* where the kind matters, and there only when theta is 0
ThetaKinds(theta) == IF theta.v = 0 THEN FloatKinds ELSE {"float64"}

\* ---------------------------------------------------------------------
\* narrowpeak.py. A frame is a record of its column names (cols) and its
\* rows; a row holds its index label (idx) and its values. start and stop are
\* integers; peak is a number in units of 1 / Scale, so that the mean of
\* integer summits is representable; signalValue is a float.
MaxPeaks == 2
MaxBeds == 2

narrowpeaks_cols ==
    <<"chr", "start", "stop", "name", "score", "strand", "signalValue",
      "pValue", "qValue", "peak">>

narrowpeaks_score == "signalValue"

narrowpeaks_sort_cols == <<"chr", "start", "stop", "strand", "peak">>

Range(s) == {s[i] : i \in 1..Len(s)}

\* the order of the chromosome names as strings
ChrOrd(c) == IF c = "a" THEN 1 ELSE 2

KeyOf(row) == <<row.chr, row.start, row.stop>>

\* the order in which groupby sorts the group keys (chr, start, stop)
KeyLess(k1, k2) ==
    \/ ChrOrd(k1[1]) < ChrOrd(k2[1])
    \/ k1[1] = k2[1] /\ k1[2] < k2[2]
    \/ k1[1] = k2[1] /\ k1[2] = k2[2] /\ k1[3] < k2[3]

RECURSIVE SortedKeys(_)
SortedKeys(S) ==
    IF S = {} THEN <<>>
    ELSE LET m == CHOOSE k \in S : \A o \in S \ {k} : KeyLess(k, o)
         IN  <<m>> \o SortedKeys(S \ {m})

RECURSIVE FirstSeenKeys(_, _)
\* the group keys in the order of their first row
FirstSeenKeys(rows, seen) ==
    IF rows = <<>> THEN <<>>
    ELSE IF KeyOf(Head(rows)) \in seen THEN FirstSeenKeys(Tail(rows), seen)
    ELSE <<KeyOf(Head(rows))>>
         \o FirstSeenKeys(Tail(rows), seen \cup {KeyOf(Head(rows))})

GroupRows(rows, key) == SelectSeq(rows, LAMBDA r : KeyOf(r) = key)

RECURSIVE SumPeaks(_)
SumPeaks(rows) ==
    IF rows = <<>> THEN 0 ELSE Head(rows).peak + SumPeaks(Tail(rows))

\* np.mean of the peak column of a group
NpMeanPeak(rows) == SumPeaks(rows) \div Len(rows)

RECURSIVE SumScores(_)
\* the builtin sum of the score column of a group, which starts from 0
SumScores(rows) ==
    IF rows = <<>> THEN F(0)
    ELSE fadd(SumScores(SubSeq(rows, 1, Len(rows) - 1)),
              rows[Len(rows)].signalValue)

\* the keys of agg_dict in insertion order (lines 338-341)
AggKeys(peaks_cols, file_cols) ==
    <<"peak", narrowpeaks_score>>
    \o SelectSeq(file_cols,
                 LAMBDA c : c \in Range(peaks_cols)
                            /\ c \notin {"peak", narrowpeaks_score})

\* one aggregated row per key of keys, relabelled 0, 1, ... by reset_index
Aggregate(rows, keys) ==
    [g \in 1..Len(keys) |->
        LET grp == GroupRows(rows, keys[g])
        IN  [grp[1] EXCEPT !.idx = g - 1,
                           !.peak = NpMeanPeak(grp),
                           !.signalValue = SumScores(grp)]]

\* variant: the groups in the order of their first row (groupby sort=False)
collapse_peaks_unsorted(peaks, file_cols) ==
    IF \E c \in Range(peaks.cols) : c \notin Range(AggKeys(peaks.cols, file_cols))
    THEN Raised("KeyError")
    ELSE Returned([cols |-> peaks.cols,
                   rows |-> Aggregate(peaks.rows,
                                      FirstSeenKeys(peaks.rows, {}))])

\* collapse_peaks with merge_function = sum and score_col = signalValue;
\* peaks[peaks_cols] (line 348) raises KeyError for a column agg_dict lacks
collapse_peaks(peaks, file_cols) ==
    IF \E c \in Range(peaks.cols) : c \notin Range(AggKeys(peaks.cols, file_cols))
    THEN Raised("KeyError")
    ELSE Returned([cols |-> peaks.cols,
                   rows |-> Aggregate(peaks.rows,
                                      SortedKeys({KeyOf(peaks.rows[i]) :
                                                  i \in 1..Len(peaks.rows)}))])

\* variant: expand without the max([..., 0]) of line 388
expand_peaks_noclamp(peaks, size) ==
    [cols |-> peaks.cols,
     rows |-> [i \in 1..Len(peaks.rows) |->
                  [peaks.rows[i] EXCEPT
                      !.start = @ - size,
                      !.stop = @ + size]]]

\* expand_peaks: every row with start = max(start - size, 0), stop + size
expand_peaks(peaks, size) ==
    [cols |-> peaks.cols,
     rows |-> [i \in 1..Len(peaks.rows) |->
                  [peaks.rows[i] EXCEPT
                      !.start = IF @ - size > 0 THEN @ - size ELSE 0,
                      !.stop = @ + size]]]

\* the rows of peaks_list that min_dist keeps for merged_peak (lines 490-494)
Qualifying(merged_peak, peaks_list) ==
    SelectSeq(peaks_list.rows,
              LAMBDA x : /\ merged_peak.peak >= x.start * Scale
                         /\ merged_peak.peak <= x.stop * Scale
                         /\ merged_peak.chr = x.chr)

RECURSIVE IdxMin(_, _, _, _)
\* Series.idxmin: the position of the first smallest element of dist
IdxMin(dist, i, best, bestval) ==
    IF i > Len(dist) THEN best
    ELSE IF dist[i] < bestval THEN IdxMin(dist, i + 1, i, dist[i])
    ELSE IdxMin(dist, i + 1, best, bestval)

\* min_dist of merge_peaks (lines 489-504)
min_dist(merged_peak, peaks_list) ==
    LET scores == Qualifying(merged_peak, peaks_list)
        dist   == [i \in 1..Len(scores) |->
                      Abs(scores[i].peak - merged_peak.peak)]
    IN  IF scores = <<>> THEN NaN
        ELSE scores[IdxMin(dist, 2, 1, dist[1])].signalValue

\* lines 483-513 of merge_peaks, after collapse_peaks returned merged_peaks
merge_into(merged_peaks, peaks, size) ==
    LET expanded == expand_peaks(peaks, size)
    IN  [cols |-> merged_peaks.cols,
         rows |-> [g \in 1..Len(merged_peaks.rows) |->
                      [merged_peaks.rows[g] EXCEPT
                          !.signalValue =
                              min_dist(merged_peaks.rows[g], expanded)]]]

\* variant: merge_peaks looking up the replicate peaks as they are
merge_peaks_noexpand(ref_peaks, peaks, size, file_cols) ==
    LET merged_peaks == collapse_peaks(ref_peaks, file_cols)
    IN  IF merged_peaks.outcome = "raise" THEN merged_peaks
        ELSE Returned(merge_into(merged_peaks.val, peaks, 0))

\* merge_peaks with merge_function = sum, score_col = signalValue and
\* pos_cols = narrowpeaks_sort_cols
merge_peaks(ref_peaks, peaks, size, file_cols) ==
    LET merged_peaks == collapse_peaks(ref_peaks, file_cols)
    IN  IF merged_peaks.outcome = "raise" THEN merged_peaks
        ELSE Returned(merge_into(merged_peaks.val, peaks, size))

\* the index labels of the rows of a frame whose score is NaN
NanLabels(frame) ==
    {frame.rows[i].idx : i \in {j \in 1..Len(frame.rows) :
                                   IsNaN(frame.rows[j].signalValue)}}

\* DataFrame.drop: the rows whose label is not in labels
Drop(frame, labels) ==
    [cols |-> frame.cols,
     rows |-> SelectSeq(frame.rows, LAMBDA r : r.idx \notin labels)]

\* the merge_peaks results of bed_files[1:] against bed_files[0]
MergedFiles(bed_files, size, file_cols) ==
    [k \in 1..(Len(bed_files) - 1) |->
        merge_peaks(bed_files[1], bed_files[k + 1], size, file_cols)]

\* variant: each frame loses only the rows whose score is NaN in itself
merge_beds_own_nan(bed_files, size, file_cols) ==
    LET merged_files == MergedFiles(bed_files, size, file_cols)
    IN  [merged_files |-> merged_files,
         ret |-> IF \E k \in 1..Len(merged_files) :
                        merged_files[k].outcome = "raise"
                 THEN Raised("KeyError")
                 ELSE Returned([k \in 1..Len(merged_files) |->
                                   Drop(merged_files[k].val,
                                        NanLabels(merged_files[k].val))])]

\* merged_files as the first loop leaves it (lines 580-596), and what is
\* returned after the second loop dropped nan_pos from every frame
merge_beds(bed_files, size, file_cols) ==
    LET merged_files == MergedFiles(bed_files, size, file_cols)
        nan_pos == UNION {NanLabels(merged_files[k].val) :
                              k \in 1..Len(merged_files)}
    IN  [merged_files |-> merged_files,
         ret |-> IF \E k \in 1..Len(merged_files) :
                        merged_files[k].outcome = "raise"
                 THEN Raised("KeyError")
                 ELSE Returned([k \in 1..Len(merged_files) |->
                                   Drop(merged_files[k].val, nan_pos)])]

\* a row of a bed file; idx is filled in when the frame is built
BedRow(c, a, b, p, v) ==
    [idx |-> 0, chr |-> c, start |-> a, stop |-> b, strand |-> ".",
     peak |-> p * Scale, signalValue |-> v]

\* rows of the reference bed
RefRows ==
    {BedRow("a", 1, 2, 1, Num(1)), BedRow("a", 1, 2, 2, Num(2)),
     BedRow("a", 4, 5, 5, Num(1)), BedRow("b", 1, 2, 1, Num(2))}

\* rows of the replicate beds
RepRows ==
    {BedRow("a", 3, 3, 3, Num(3)), BedRow("a", 0, 1, 1, Num(4)),
     BedRow("b", 1, 1, 1, Num(5)), BedRow("a", 5, 6, 6, Num(6)),
     BedRow("a", 2, 4, 3, Num(7))}

Sizes == {0, 1}

ColOrders ==
    {<<"chr", "start", "stop", "strand", "peak", "signalValue">>,
     <<"chr", "start", "stop", "signalValue", "strand", "peak">>}

\* the replicate beds handed to merge_beds: one row each, overlapping the
\* first reference peak, a peak of the other chromosome, or two peaks
BedRepRows ==
    {BedRow("a", 0, 1, 1, Num(4)), BedRow("b", 1, 1, 1, Num(5)),
     BedRow("a", 2, 4, 3, Num(7))}

BedReplicates(cols) ==
    {[cols |-> cols, rows |-> <<r>>] : r \in BedRepRows}

\* the columns of the beds handed to merge_beds
BedCols == <<"chr", "start", "stop", "strand", "peak", "signalValue">>

\* the frames of 1..MaxPeaks rows over a set of rows, indexed 0, 1, ...
Frames(rowset, cols) ==
    {[cols |-> cols,
      rows |-> [i \in 1..Len(rs) |-> [rs[i] EXCEPT !.idx = i - 1]]] :
        rs \in UNION {[1..n -> rowset] : n \in 1..MaxPeaks}}

\* ---------------------------------------------------------------------
\* best_peak, narrowpeak.py:223-261. peaks is the sequence of its rows, a
\* row a record of its summit (peak) and its score (signalValue).
RECURSIVE IdxMax(_, _, _, _)
\* Series.idxmax over the rows kept by where(): the position of the first
\* largest score among the rows whose keep flag is set (the others are NaN
\* and skipped); best = 0 while no kept row was seen
IdxMax(score, keep, i, best) ==
    IF i > Len(score) THEN best
    ELSE IF keep[i] /\ (best = 0 \/ fgt(score[i], score[best]))
    THEN IdxMax(score, keep, i + 1, i)
    ELSE IdxMax(score, keep, i + 1, best)

\* Series.where keeps the length of the series, so the size tested at line
\* 257 is the number of rows of peaks
best_peak(ref_peak, peaks, start_pos) ==
    IF Len(peaks) = 1 THEN Returned(start_pos)
    ELSE IF Len(peaks) = 0 THEN Raised("ValueError")
    ELSE LET dist == [i \in 1..Len(peaks) |-> Abs(peaks[i].peak - ref_peak.peak)]
             pos  == IdxMin(dist, 2, 1, dist[1])
             keep == [i \in 1..Len(peaks) |-> peaks[i].peak = peaks[pos].peak]
             score == [i \in 1..Len(peaks) |-> peaks[i].signalValue]
         IN  IF Len(peaks) = 1 THEN Returned((pos - 1) + start_pos)
             ELSE Returned((IdxMax(score, keep, 1, 0) - 1) + start_pos)

\* summits and scores of the peaks handed to best_peak
SummitRows ==
    {[peak |-> p, signalValue |-> Num(v)] : p \in {1, 2, 3}, v \in {1, 2}}

RefSummit == [peak |-> 2, signalValue |-> Num(2)]

StartPositions == {0, 3}

\* ---------------------------------------------------------------------
\* pos_overlap, narrowpeak.py:178-220. A position is a record of chr, start,
\* stop and strand; chr and strand are strings, or the float NaN that pandas
\* puts in place of a missing field.
NotAStr == "float('nan')"

IsStr(x) == x # NotAStr

\* x != y of Python: NaN differs from everything, itself included
PyNe(x, y) == ~IsStr(x) \/ ~IsStr(y) \/ x # y

RECURSIVE pos_overlap_cols(_, _, _, _)
\* the loop of lines 207-213 over pos_cols from position i on: "raise",
\* "false" (return False) or "pass" when the loop ends
pos_overlap_cols(pos_ref, pos, pos_cols, i) ==
    IF i > Len(pos_cols) THEN "pass"
    ELSE IF ~IsStr(pos_ref[pos_cols[i]]) \/ ~IsStr(pos[pos_cols[i]])
    THEN "raise"
    ELSE IF PyNe(pos_ref[pos_cols[i]], pos[pos_cols[i]]) THEN "false"
    ELSE pos_overlap_cols(pos_ref, pos, pos_cols, i + 1)

\* variant: positions that only touch do not overlap
pos_overlap_strict(pos_ref, pos) ==
    LET cols == pos_overlap_cols(pos_ref, pos, <<"chr", "strand">>, 1)
    IN  IF cols = "raise" THEN Raised("AssertionError")
        ELSE IF cols = "false" THEN Returned(FALSE)
        ELSE IF pos_ref.start >= pos.stop THEN Returned(FALSE)
        ELSE IF pos_ref.stop <= pos.start THEN Returned(FALSE)
        ELSE Returned(TRUE)

pos_overlap(pos_ref, pos) ==
    LET cols == pos_overlap_cols(pos_ref, pos, <<"chr", "strand">>, 1)
    IN  IF cols = "raise" THEN Raised("AssertionError")
        ELSE IF cols = "false" THEN Returned(FALSE)
        ELSE IF pos_ref.start > pos.stop THEN Returned(FALSE)
        ELSE IF pos_ref.stop < pos.start THEN Returned(FALSE)
        ELSE Returned(TRUE)

\* largest coordinate of a position handed to pos_overlap
MaxPos == 2

\* bed positions: 0 <= start <= stop <= MaxPos
Positions ==
    {p \in [chr : {"a", "b"}, start : 0..MaxPos, stop : 0..MaxPos,
            strand : {".", "+", NotAStr}] : p.start <= p.stop}

Init ==
    /\ op = "none"
    /\ args = <<>>
    /\ loc = <<>>
    /\ ret = Returned(F(0))
    /\ heap = <<>>

\* the caller is idle: no call is in progress and the last result was consumed
Idle == op = "none"

CallLsum ==
    /\ Idle
    /\ \E x \in Vectors(LsumVals, 0) :
        /\ op' = "lsum"
        /\ args' = [x |-> x]
        /\ loc' = <<>>
        \* max() of an empty sequence raises ValueError (line 31)
        /\ ret' = IF Len(x) = 0 THEN Raised("ValueError") ELSE Returned(lsum(x))
        /\ heap' = <<>>

CallLssum ==
    /\ Idle
    /\ \E x \in Vectors(LssumVals, 0) :
        /\ op' = "lssum"
        /\ args' = [x_values |-> x]
        /\ loc' = <<>>
        \* max() of an empty sequence raises ValueError (line 42)
        /\ ret' = IF Len(x) = 0 THEN Raised("ValueError") ELSE Returned(lssum(x))
        /\ heap' = <<>>

CallEulerianAll ==
    /\ Idle
    /\ \E n \in 0..MaxN :
        /\ op' = "eulerian_all"
        /\ args' = [n |-> n]
        /\ loc' = <<>>
        /\ ret' = Returned(eulerian_all(n))
        /\ heap' = <<>>

CallPolylog ==
    /\ Idle
    /\ \E z \in Vectors(ZVals, 1), n \in 0..MaxOrder, is_log_z \in BOOLEAN :
        LET z_arg == IF is_log_z THEN LogVec(z) ELSE z IN
        /\ op' = "polylog"
        /\ args' = [z |-> z_arg, s |-> -n, is_log_z |-> is_log_z]
        /\ loc' = [Eun |-> eulerian_all(n),
                   p |-> polyneval(eulerian_all(n), z)]
        /\ ret' = Returned(polylog(z_arg, -n, is_log_z))
        /\ heap' = <<>>

CallPdfClayton ==
    /\ Idle
    /\ \E u \in DensityMatrices, theta \in ClaytonThetas, is_log \in BOOLEAN :
       \E kind \in ThetaKinds(theta) :
        \E r \in {pdf_clayton(u, theta, kind, is_log)} :
        /\ op' = "pdf_clayton"
        /\ args' = [u_values |-> u, theta |-> theta, kind |-> kind,
                    is_log |-> is_log]
        /\ loc' = [t |-> clayton_t(u, theta)]
        /\ ret' = r
        /\ heap' = [u_values |-> pdf_clayton_u(u, r)]

CallDmleClayton ==
    /\ Idle
    /\ \E u \in Matrices, res \in minimize_results :
        /\ op' = "dmle_copula_clayton"
        /\ args' = [u_values |-> u]
        /\ loc' = [res |-> res,
                   cons |-> [i \in 1..Len(clayton_constraint) |->
                                clayton_constraint[i][res.x]]]
        /\ ret' = Returned(max_diag_pdf(res))
        /\ heap' = [u_values |-> diag_copula_u(u)]

CallDmleFranck ==
    /\ Idle
    /\ \E u \in Matrices, res \in minimize_results :
        /\ op' = "dmle_copula_franck"
        /\ args' = [u_values |-> u]
        /\ loc' = [res |-> res,
                   cons |-> [i \in 1..Len(franck_constraint) |->
                                franck_constraint[i][res.x]]]
        /\ ret' = Returned(max_diag_pdf(res))
        /\ heap' = [u_values |-> diag_copula_u(u)]

CallDmleGumbel ==
    /\ Idle
    /\ \E u \in Matrices :
        \E r \in {dmle_copula_gumbel(u)} :
        /\ op' = "dmle_copula_gumbel"
        /\ args' = [u_values |-> u]
        /\ loc' = [theta |-> r.raw,
                   y |-> diag_copula(u)]
        /\ ret' = Returned(r.ret)
        /\ heap' = [u_values |-> diag_copula_u(u)]

CallDiagCopula ==
    /\ Idle
    /\ \E u \in Matrices :
        /\ op' = "diag_copula"
        /\ args' = [u_values |-> u]
        /\ loc' = <<>>
        /\ ret' = Returned(diag_copula(u))
        /\ heap' = [u_values |-> diag_copula_u(u)]

CallPdfFrank ==
    /\ Idle
    /\ \E u \in DensityMatrices, theta \in FrankThetas, is_log \in BOOLEAN :
        \E r \in {pdf_frank(u, theta, is_log)} :
        /\ op' = "pdf_frank"
        /\ args' = [u_values |-> u, theta |-> theta, is_log |-> is_log]
        /\ loc' = [polylog_s |-> r.polylog_s]
        /\ ret' = Returned(r.copula)
        /\ heap' = [u_values |-> u]

CallDiagPdfGumbel ==
    /\ Idle
    /\ \E u \in Matrices, theta \in GumbelThetas, is_log \in BOOLEAN :
        /\ op' = "diag_pdf_gumbel"
        /\ args' = [u_values |-> u, theta |-> theta, is_log |-> is_log]
        /\ loc' = <<>>
        /\ ret' = Returned(diag_pdf_gumbel(u, theta, is_log))
        /\ heap' = [u_values |-> diag_copula_u(u)]

CallPsiIpsiClayton ==
    /\ Idle
    /\ \E u \in OpenUVals, theta \in ClaytonFeasible :
        /\ op' = "psi_ipsi_clayton"
        /\ args' = [u |-> u, theta |-> theta]
        /\ loc' = [ipsi |-> ipsi_clayton(u, theta)]
        /\ ret' = Returned(psi_clayton(ipsi_clayton(u, theta), theta))
        /\ heap' = [u_values |-> u]

CallPsiIpsiFrank ==
    /\ Idle
    /\ \E u \in OpenUVals, theta \in FrankFeasible :
        /\ op' = "psi_ipsi_frank"
        /\ args' = [u |-> u, theta |-> theta]
        /\ loc' = [ipsi |-> ipsi_frank(u, theta),
                   branch |-> ipsi_frank_branch(u, theta)]
        /\ ret' = Returned(psi_frank(ipsi_frank(u, theta), theta))
        /\ heap' = [u_values |-> u]

CallPsiIpsiGumbel ==
    /\ Idle
    /\ \E u \in OpenUVals, theta \in GumbelFeasible :
        /\ op' = "psi_ipsi_gumbel"
        /\ args' = [u |-> u, theta |-> theta]
        /\ loc' = [ipsi |-> ipsi_gumbel(u, theta)]
        /\ ret' = Returned(psi_gumbel(ipsi_gumbel(u, theta), theta))
        /\ heap' = [u_values |-> u]

CallCollapsePeaks ==
    /\ Idle
    /\ \E cols \in ColOrders : \E peaks \in Frames(RefRows, cols) :
        /\ op' = "collapse_peaks"
        /\ args' = [peaks |-> peaks, file_cols |-> narrowpeaks_cols]
        /\ loc' = <<>>
        /\ ret' = collapse_peaks(peaks, narrowpeaks_cols)
        /\ heap' = <<>>

CallMergePeaks ==
    /\ Idle
    /\ \E cols \in ColOrders, size \in Sizes :
       \E ref_peaks \in Frames(RefRows, cols), peaks \in Frames(RepRows, cols) :
        /\ op' = "merge_peaks"
        /\ args' = [ref_peaks |-> ref_peaks, peaks |-> peaks, size |-> size,
                    file_cols |-> narrowpeaks_cols]
        /\ loc' = <<>>
        /\ ret' = merge_peaks(ref_peaks, peaks, size, narrowpeaks_cols)
        /\ heap' = <<>>

CallMergeBeds ==
    /\ Idle
    /\ \E size \in Sizes, n \in 0..MaxBeds :
       \E ref \in Frames(RefRows, BedCols),
          beds \in [1..n -> BedReplicates(BedCols)] :
        \E r \in {merge_beds(<<ref>> \o beds, size, narrowpeaks_cols)} :
        /\ op' = "merge_beds"
        /\ args' = [bed_files |-> <<ref>> \o beds, size |-> size,
                    file_cols |-> narrowpeaks_cols]
        /\ loc' = [merged_files |-> r.merged_files]
        /\ ret' = r.ret
        /\ heap' = <<>>

CallBestPeak ==
    /\ Idle
    /\ \E n \in 0..MaxPeaks, start_pos \in StartPositions :
       \E peaks \in [1..n -> SummitRows] :
        /\ op' = "best_peak"
        /\ args' = [ref_peak |-> RefSummit, peaks |-> peaks,
                    start_pos |-> start_pos]
        /\ loc' = <<>>
        /\ ret' = best_peak(RefSummit, peaks, start_pos)
        /\ heap' = <<>>

CallExpandPeaks ==
    /\ Idle
    /\ \E cols \in ColOrders, size \in Sizes :
       \E peaks \in Frames(RepRows, cols) :
        /\ op' = "expand_peaks"
        /\ args' = [peaks |-> peaks, size |-> size]
        /\ loc' = <<>>
        /\ ret' = Returned(expand_peaks(peaks, size))
        /\ heap' = <<>>

CallPosOverlap ==
    /\ Idle
    /\ \E pos_ref \in Positions, pos \in Positions :
        /\ op' = "pos_overlap"
        /\ args' = [pos_ref |-> pos_ref, pos |-> pos]
        /\ loc' = <<>>
        /\ ret' = pos_overlap(pos_ref, pos)
        /\ heap' = <<>>

CallDiagPdfFrank ==
    /\ Idle
    /\ \E u \in DensityMatrices, theta \in DiagFrankThetas, is_log \in BOOLEAN :
        \E r \in {diag_pdf_frank(u, theta, is_log)} :
        /\ op' = "diag_pdf_frank"
        /\ args' = [u_values |-> u, theta |-> theta, is_log |-> is_log]
        /\ loc' = [yt |-> [i \in 1..Len(r) |-> r[i].yt],
                   branch |-> [i \in 1..Len(r) |-> r[i].branch]]
        /\ ret' = Returned([i \in 1..Len(r) |-> r[i].val])
        /\ heap' = [u_values |-> diag_copula_u(u)]

CallIpsiFrank ==
    /\ Idle
    /\ \E x \in IpsiXs, theta \in IpsiThetas, is_log \in BOOLEAN :
        \E v \in {ipsi_frank(x, theta)} :
        /\ op' = "ipsi_frank"
        /\ args' = [u_values |-> x, theta |-> theta, is_log |-> is_log]
        /\ loc' = [branch |-> ipsi_frank_branch(x, theta)]
        /\ ret' = Returned(IF is_log THEN flog(v) ELSE v)
        /\ heap' = [u_values |-> x]

CallPsiFrank ==
    /\ Idle
    /\ \E u \in PsiYs, theta \in PsiThetas :
        /\ op' = "psi_frank"
        /\ args' = [u_values |-> u, theta |-> theta]
        /\ loc' = [branch |-> psi_frank_branch(theta)]
        /\ ret' = Returned(psi_frank(u, theta))
        /\ heap' = [u_values |-> u]

CallLog1mexp ==
    /\ Idle
    /\ \E n \in 1..MaxLen : \E x \in [1..n -> Log1mexpXs] :
        /\ op' = "log1mexp"
        /\ args' = [x |-> x]
        /\ loc' = [branch |-> [i \in 1..n |-> log1mexp_branch(x[i])]]
        /\ ret' = Returned([i \in 1..n |-> log1mexp(x[i])])
        /\ heap' = <<>>

CallPdfGumbel ==
    /\ Idle
    /\ \E u \in GumbelMatrices, theta \in GumbelPdfThetas, is_log \in BOOLEAN :
        \E r \in {pdf_gumbel(u, theta, is_log)} :
        /\ op' = "pdf_gumbel"
        /\ args' = [u_values |-> u, theta |-> theta, is_log |-> is_log]
        /\ loc' = [alpha |-> fdiv(F(Scale), theta), s |-> r.s, lx |-> r.lx,
                   res |-> r.res]
        /\ ret' = r.ret
        /\ heap' = [u_values |-> u]

\* the caller consumes the result and is ready for the next call
Finish ==
    /\ ~Idle
    /\ op' = "none"
    /\ args' = <<>>
    /\ loc' = <<>>
    /\ ret' = Returned(F(0))
    /\ heap' = <<>>

Next ==
    \/ CallLsum
    \/ CallLssum
    \/ CallEulerianAll
    \/ CallPolylog
    \/ CallPdfClayton
    \/ CallDmleClayton
    \/ CallDmleFranck
    \/ CallDmleGumbel
    \/ CallDiagCopula
    \/ CallPdfFrank
    \/ CallDiagPdfGumbel
    \/ CallPsiIpsiClayton
    \/ CallPsiIpsiFrank
    \/ CallPsiIpsiGumbel
    \/ CallCollapsePeaks
    \/ CallMergePeaks
    \/ CallMergeBeds
    \/ CallBestPeak
    \/ CallExpandPeaks
    \/ CallPosOverlap
    \/ CallDiagPdfFrank
    \/ CallIpsiFrank
    \/ CallPsiFrank
    \/ CallLog1mexp
    \/ CallPdfGumbel
    \/ Finish

Spec == Init /\ [][Next]_vars

\* ---------------------------------------------------------------------
\* Two callers running calls concurrently. Under this specification op,
\* args, loc and ret hold one entry per thread: the thread's position, the
\* arguments it passed, the local variables of its activation, and its
\* result; heap holds the module-level mutable state, of which there is none.
Threads == {1, 2}

\* the datasets of the concurrent callers
ConcMatrices ==
    {<<(<<F(Scale \div Grid), b>>), (<<b, F(Scale \div Grid)>>)>> : b \in UVals}

ConcFns == {"diag_pdf_gumbel", "dmle_copula_gumbel", "dmle_copula_clayton"}

NoFrame == [fn |-> "none", u_values |-> <<>>, value |-> <<>>]

\* variant: the body reads the other thread's activation when there is one
ActivationFrame_other(frames, t) ==
    IF frames[3 - t].fn # "none" THEN frames[3 - t] ELSE frames[t]

\* the variables the body of thread t's call reads: u_values, diag_pdf, init
\* and theta are parameters and closure variables of its own activation
ActivationFrame(frames, t) == frames[t]

\* what the body computes from the variables it reads: the density vector,
\* the closed-form estimate, or the objective at x0 = init = 0.5; a scalar
\* is held as a vector of one entry
Evaluate(frame) ==
    IF frame.fn = "diag_pdf_gumbel"
    THEN diag_pdf_gumbel(frame.u_values, F(2 * Scale), TRUE)
    ELSE IF frame.fn = "dmle_copula_gumbel"
    THEN <<dmle_copula_gumbel(frame.u_values).ret>>
    ELSE <<log_ddelta("diag_pdf_clayton", F(Scale \div 2), frame.u_values)>>

InitConc ==
    /\ op = [t \in Threads |-> "idle"]
    /\ args = [t \in Threads |-> <<>>]
    /\ loc = [t \in Threads |-> NoFrame]
    /\ ret = [t \in Threads |-> Returned(<<>>)]
    /\ heap = <<>>

\* thread t enters a call: its arguments are bound in a new activation
Enter(t) ==
    /\ op[t] = "idle"
    /\ \E fn \in ConcFns, u \in ConcMatrices :
        /\ op' = [op EXCEPT ![t] = "entered"]
        /\ args' = [args EXCEPT ![t] = [fn |-> fn, u_values |-> u]]
        /\ loc' = [loc EXCEPT ![t] = [fn |-> fn, u_values |-> u,
                                      value |-> <<>>]]
        /\ UNCHANGED <<ret, heap>>

\* thread t runs the body of its call
Body(t) ==
    /\ op[t] = "entered"
    /\ op' = [op EXCEPT ![t] = "evaluated"]
    /\ loc' = [loc EXCEPT ![t].value = Evaluate(ActivationFrame(loc, t))]
    /\ UNCHANGED <<args, ret, heap>>

\* thread t returns: the computed value, or for dmle_copula_clayton what
\* max_diag_pdf makes of the optimizer's answer
Return(t) ==
    /\ op[t] = "evaluated"
    /\ op' = [op EXCEPT ![t] = "returned"]
    /\ \E res \in minimize_results :
        ret' = [ret EXCEPT ![t] =
                   IF loc[t].fn = "dmle_copula_clayton"
                   THEN Returned(max_diag_pdf(res))
                   ELSE Returned(loc[t].value)]
    /\ UNCHANGED <<args, loc, heap>>

NextConc == \E t \in Threads : Enter(t) \/ Body(t) \/ Return(t)

SpecConc == InitConc /\ [][NextConc]_vars

(***************************************************************************)
(* Properties.                                                             *)
(***************************************************************************)
\* two results agree within the fixed point tolerance, or are the same
\* special value
Tol == Scale \div 100
Close(a, b) ==
    IF IsFin(a) /\ IsFin(b) THEN Abs(a.v - b.v) <= Tol ELSE a = b

\* C1: max_diag_pdf (reached through dmle_copula_clayton and
\* dmle_copula_franck) returns the optimizer's x when the optimizer reports
\* success and NaN when it reports failure; it never raises.
C1_MaxDiagPdfNaNOnFailure ==
    op \in {"dmle_copula_clayton", "dmle_copula_franck"} =>
        /\ ret.outcome = "return"
        /\ loc.res.success => ret.val = loc.res.x
        /\ ~loc.res.success => ret.val = TNaN

C1_Witness ==
    /\ op = "dmle_copula_clayton"
    /\ ~loc.res.success
    /\ ret = Returned(TNaN)

\* some constraint function is negative at the optimizer's candidate
Violated(cons) == \E i \in 1..Len(cons) : tsign(cons[i]) < 0

\* C2: the constraints dmle_copula_clayton hands the optimizer are violated
\* by every theta <= 0 and by every theta > 1000, and satisfied by every
\* theta strictly between 0 and 1000.
C2_ClaytonFeasibleSet ==
    op = "dmle_copula_clayton" =>
        LET x == loc.res.x IN
        /\ tsign(x) <= 0 => Violated(loc.cons)
        /\ tsign(tsub(x, T(1000, 0))) > 0 => Violated(loc.cons)
        /\ (tsign(x) > 0 /\ tsign(tsub(x, T(1000, 0))) < 0)
               => ~Violated(loc.cons)

\* C3: the constraints dmle_copula_franck hands the optimizer are violated
\* by every theta <= 0 and by every theta > 745, and satisfied by every
\* theta with 1e-14 <= theta <= 745.
C3_FranckFeasibleSet ==
    op = "dmle_copula_franck" =>
        LET x == loc.res.x IN
        /\ tsign(x) <= 0 => Violated(loc.cons)
        /\ tsign(tsub(x, T(745, 0))) > 0 => Violated(loc.cons)
        /\ (tsign(tsub(x, T(0, 1))) >= 0 /\ tsign(tsub(x, T(745, 0))) <= 0)
               => ~Violated(loc.cons)

C3_Witness ==
    /\ op = "dmle_copula_franck"
    /\ loc.res.x = T(0, 0)
    /\ tsign(loc.cons[1]) < 0

\* the largest element of a row, stated without the order of evaluation
RowMax(row) ==
    CHOOSE m \in {row[j] : j \in 1..Len(row)} :
        \A j \in 1..Len(row) : fge(m, row[j])

\* log(d) / (log(n) - log_sum(-log(y))), y the row maxima
GumbelQuotient(u_values) ==
    fdiv(flog(Num(NCols(u_values))),
         fsub(flog(Num(NRows(u_values))),
              lsum([i \in 1..NRows(u_values) |->
                       fneg(flog(RowMax(u_values[i])))])))

\* C4: dmle_copula_gumbel returns max(1, q) with q the quotient
\* log(d) / (log(n) - log_sum(-log(y))): whenever q is a number the result
\* is >= 1, exactly 1 when q < 1 (a negative q included) and q otherwise.
C4_GumbelClampedAtOne ==
    (op = "dmle_copula_gumbel" /\ ~IsNaN(GumbelQuotient(args.u_values))) =>
        LET q == GumbelQuotient(args.u_values) IN
        /\ ret.outcome = "return"
        /\ fge(ret.val, F(Scale))
        /\ flt(q, F(Scale)) => ret.val = F(Scale)
        /\ fge(q, F(Scale)) => ret.val = q

C4_Witness ==
    /\ op = "dmle_copula_gumbel"
    /\ IsFin(GumbelQuotient(args.u_values))
    /\ GumbelQuotient(args.u_values).v < 0
    /\ ret = Returned(F(Scale))

\* the log-sum step of dmle_copula_gumbel is undefined
LogSumUndefined(u_values) ==
    IsNaN(lsum([i \in 1..NRows(u_values) |->
                   fneg(flog(RowMax(u_values[i])))]))

\* C5: when the log-sum step is undefined, as when every row maximum is 1,
\* dmle_copula_gumbel returns NaN: it neither raises nor returns 1.
C5_GumbelNaNOnUndefinedLogSum ==
    op = "dmle_copula_gumbel" =>
        /\ (\A i \in 1..NRows(args.u_values) :
               RowMax(args.u_values[i]) = F(Scale))
              => LogSumUndefined(args.u_values)
        /\ LogSumUndefined(args.u_values) => ret = Returned(NaN)

C5_Witness ==
    /\ op = "dmle_copula_gumbel"
    /\ NRows(args.u_values) > 1
    /\ \A i \in 1..NRows(args.u_values) :
           RowMax(args.u_values[i]) = F(Scale)
    /\ ret = Returned(NaN)

SomeNonPositive(x) == \E i \in 1..Len(x) : fle(x[i], F(0))
SomeNegative(x) == \E i \in 1..Len(x) : flt(x[i], F(0))
AllZero(x) == \A i \in 1..Len(x) : x[i] = F(0)

\* C6 as stated: lsum fails with a domain error whenever an element of its
\* input is <= 0 and returns no value for such an input.
C6_LsumDomainError ==
    (op = "lsum" /\ SomeNonPositive(args.x)) => ret.outcome = "raise"

\* C6 as amended: lsum does not fail when an element of its input is <= 0;
\* it returns NaN when an element is negative or every element is 0, and
\* otherwise the finite log of the sum of the elements.
C6_LsumReturnsOnNonPositive ==
    (op = "lsum" /\ SomeNonPositive(args.x)) =>
        /\ ret.outcome = "return"
        /\ (SomeNegative(args.x) \/ AllZero(args.x)) => IsNaN(ret.val)
        /\ ~(SomeNegative(args.x) \/ AllZero(args.x)) =>
               /\ IsFin(ret.val)
               /\ Close(ret.val, flog(NpSum(args.x)))

C6_Witness ==
    /\ op = "lsum"
    /\ args.x = <<F(0), F(2 * Scale)>>
    /\ ret.outcome = "return"
    /\ IsFin(ret.val)

\* C7: for every vector of nonzero values lssum gives each term the sign of
\* its input, so that the result is log|sum_i x_i|.
C7_LssumSignedSum ==
    (op = "lssum" /\ Len(args.x_values) >= 1) =>
        /\ ret.outcome = "return"
        /\ Close(ret.val, flog(fabs(NpSum(args.x_values))))

RECURSIVE EulerA(_, _)
\* the recurrence: A(i,j) = 0 for j >= i, A(i,0) = 1 for i > 0,
\* A(i,j) = (i-j) A(i-1,j-1) + (j+1) A(i-1,j) for 0 < j < i
EulerA(i, j) ==
    IF j >= i THEN 0
    ELSE IF j = 0 THEN 1
    ELSE (i - j) * EulerA(i - 1, j - 1) + (j + 1) * EulerA(i - 1, j)

EulerRow10 ==
    <<1, 1013, 47840, 455192, 1310354, 1310354, 455192, 47840, 1013, 1>>

\* C8: for n >= 1 eulerian_all(n) returns the n values A(n,0..n-1) of the
\* recurrence; for n = 10 it is the row 1, 1013, 47840, ..., 1013, 1.
C8_EulerianRow ==
    (op = "eulerian_all" /\ args.n >= 1) =>
        /\ ret.outcome = "return"
        /\ Len(ret.val) = args.n
        /\ \A k \in 0..(args.n - 1) : ret.val[k + 1] = EulerA(args.n, k)
        /\ args.n = 10 => ret.val = EulerRow10

C8_Witness ==
    /\ op = "eulerian_all"
    /\ args.n = 10
    /\ ret = Returned(EulerRow10)

\* C9: polylog accepts every order s = -n, n >= 0: the polynomial of its
\* coefficient row is positive at every z in (0,1) and the result is finite;
\* for n >= 1 the row has n coefficients.
C9_PolylogEveryOrder ==
    op = "polylog" =>
        /\ ret.outcome = "return"
        /\ \A i \in 1..Len(args.z) :
               /\ fgt(loc.p[i], F(0))
               /\ IsFin(ret.val[i])
        /\ -args.s >= 1 => Len(loc.Eun) = -args.s

\* C10: pdf_clayton with theta = 0 completes normally and returns, for every
\* row of a valid U, log-density 0 or density 1.
C10_ClaytonIndependence ==
    (op = "pdf_clayton" /\ args.theta = F(0) /\ ValidU(args.u_values)) =>
        /\ ret.outcome = "return"
        /\ \A i \in 1..NRows(args.u_values) :
               ret.val[i] = IF args.is_log THEN F(0) ELSE F(Scale)

\* the value pdf_clayton gives a row with t >= 1 when theta < 0
ZeroDensity(is_log) == IF is_log THEN NInf ELSE F(0)

\* what pdf_clayton computes for row i of a call taken alone
ClaytonRow(call, i, is_log) ==
    pdf_clayton(<<call.u_values[i]>>, call.theta, call.kind, is_log).val[1]

\* each row of the result is what the call returns for that row alone
RowsIndependent(call, val) ==
    \A i \in 1..NRows(call.u_values) :
        val[i] = ClaytonRow(call, i, call.is_log)

\* row i holds the closed form of line 319: a finite log-density, and
\* without is_log its exponential (line 327), +inf when np.exp overflows
ClosedFormReturned(i) ==
    LET lg == ClaytonRow(args, i, TRUE)
    IN  /\ IsFin(lg)
        /\ ret.val[i] = IF args.is_log THEN lg ELSE fexp(lg)
        /\ IsFin(ret.val[i]) \/ fgt(lg, F(ExpMax))

\* C11 as stated: for every theta < 0 a row gets the finite closed form
\* exactly when its t < 1 and log-density -inf (density 0) when t >= 1; the
\* call does not fail and a row with t >= 1 changes no other row.
C11_ClaytonNegativeTheta ==
    (op = "pdf_clayton" /\ flt(args.theta, F(0))) =>
        /\ ret.outcome = "return"
        /\ \A i \in 1..NRows(args.u_values) :
               /\ flt(loc.t[i], F(Scale)) => ClosedFormReturned(i)
               /\ fge(loc.t[i], F(Scale)) => ret.val[i] = ZeroDensity(args.is_log)
        /\ RowsIndependent(args, ret.val)

\* C11 as amended: the same for -1 < theta < 0.
C11_ClaytonNegativeThetaAboveMinusOne ==
    (op = "pdf_clayton" /\ flt(args.theta, F(0))
        /\ fgt(args.theta, F(-Scale))) =>
        /\ ret.outcome = "return"
        /\ \A i \in 1..NRows(args.u_values) :
               /\ flt(loc.t[i], F(Scale)) => ClosedFormReturned(i)
               /\ fge(loc.t[i], F(Scale)) => ret.val[i] = ZeroDensity(args.is_log)
        /\ RowsIndependent(args, ret.val)

C11_Witness ==
    /\ op = "pdf_clayton"
    /\ flt(args.theta, F(0)) /\ fgt(args.theta, F(-Scale))
    /\ args.is_log
    /\ NRows(args.u_values) = 2
    /\ flt(loc.t[1], F(Scale)) /\ IsFin(ret.val[1])
    /\ fge(loc.t[2], F(Scale)) /\ ret.val[2] = NInf

\* C12: pdf_frank with theta = 0 returns a vector of length n whose entries
\* are all log-density 0 (is_log) or density 1, without evaluating polylog;
\* with theta != 0 it evaluates polylog at order -(d - 1).
C12_FrankIndependence ==
    op = "pdf_frank" =>
        /\ ret.outcome = "return"
        /\ Len(ret.val) = NRows(args.u_values)
        /\ args.theta = F(0) =>
               /\ \A i \in 1..Len(ret.val) :
                      ret.val[i] = IF args.is_log THEN F(0) ELSE F(Scale)
               /\ loc.polylog_s = <<>>
        /\ args.theta # F(0) =>
               loc.polylog_s = <<-(NCols(args.u_values) - 1)>>

C12_Witness ==
    /\ op = "pdf_frank"
    /\ args.theta = F(0)
    /\ ~args.is_log
    /\ NRows(args.u_values) = 2
    /\ ret.val = <<F(Scale), F(Scale)>>
    /\ loc.polylog_s = <<>>

RECURSIVE IntPow(_, _)
\* x^k for a natural number k by repeated multiplication
IntPow(x, k) == IF k = 0 THEN F(Scale) ELSE fmul(x, IntPow(x, k - 1))

\* agreement of two values up to the precision of the arithmetic
Near(a, b) ==
    IF IsFin(a) /\ IsFin(b)
    THEN Abs(a.v - b.v) * 20 <= Abs(a.v) + Abs(b.v) + 20 * Tol
    ELSE a = b

\* C13: diag_pdf_gumbel returns one value per row; at theta = 1 the
\* natural-scale value is d * y^(d - 1), y the row maximum, for every d >= 1;
\* the log-scale result is the log of the natural-scale result.
C13_GumbelDiagonal ==
    op = "diag_pdf_gumbel" =>
        LET u == args.u_values
            d == NCols(u)
        IN  /\ ret.outcome = "return"
            /\ Len(ret.val) = NRows(u)
            /\ \A i \in 1..NRows(u) :
                   /\ (args.theta = F(Scale) /\ ~args.is_log) =>
                          Near(ret.val[i],
                               fmul(Num(d), IntPow(RowMax(u[i]), d - 1)))
                   /\ Near(diag_pdf_gumbel(u, args.theta, TRUE)[i],
                           flog(diag_pdf_gumbel(u, args.theta, FALSE)[i]))

C13_Witness ==
    /\ op = "diag_pdf_gumbel"
    /\ args.theta = F(Scale)
    /\ ~args.is_log
    /\ NCols(args.u_values) = 3
    /\ RowMax(args.u_values[1]) = F((2 * Scale) \div Grid)
    /\ Near(ret.val[1], F((4 * Scale) \div 3))

\* C14: diag_copula(U) returns a vector of length n whose i-th entry is the
\* maximum of row i: an element of the row that is >= every element of the
\* row, for every n x d matrix with d >= 1.
C14_DiagCopulaRowMax ==
    op = "diag_copula" =>
        LET u == args.u_values
        IN  /\ ret.outcome = "return"
            /\ Len(ret.val) = NRows(u)
            /\ \A i \in 1..NRows(u) :
                   /\ \E j \in 1..NCols(u) : ret.val[i] = u[i][j]
                   /\ \A j \in 1..NCols(u) : fge(ret.val[i], u[i][j])

C14_Witness ==
    /\ op = "diag_copula"
    /\ NRows(args.u_values) = 2 /\ NCols(args.u_values) = 2
    /\ flt(args.u_values[1][1], args.u_values[1][2])
    /\ flt(args.u_values[2][2], args.u_values[2][1])
    /\ ret.val = <<args.u_values[1][2], args.u_values[2][1]>>

\* C15: psi_F(ipsi_F(u, theta), theta) equals u within tolerance for every
\* family F, every u in (0, 1) and every feasible theta, whichever branch of
\* ipsi_F and psi_F is selected.
C15_RoundTrip ==
    op \in {"psi_ipsi_clayton", "psi_ipsi_frank", "psi_ipsi_gumbel"} =>
        /\ ret.outcome = "return"
        /\ Near(ret.val, args.u)

\* the round trip outside branch 1 of ipsi_frank
C15_RoundTripOtherBranches ==
    (/\ op \in {"psi_ipsi_clayton", "psi_ipsi_frank", "psi_ipsi_gumbel"}
     /\ op = "psi_ipsi_frank" => loc.branch # 1) =>
        /\ ret.outcome = "return"
        /\ Near(ret.val, args.u)

\* the operations that take the matrix U
MatrixOps ==
    {"diag_copula", "pdf_clayton", "pdf_frank", "diag_pdf_gumbel",
     "dmle_copula_clayton", "dmle_copula_franck", "dmle_copula_gumbel"}

\* the generators, applied to one entry of U
EntryOps == {"psi_ipsi_clayton", "psi_ipsi_frank", "psi_ipsi_gumbel"}

Alone(call) == Evaluate([fn |-> call.fn, u_values |-> call.u_values])

GroupOf(frame, key) ==
    {i \in 1..Len(frame.rows) : KeyOf(frame.rows[i]) = key}

RECURSIVE SetSumPeaks(_, _)
SetSumPeaks(frame, I) ==
    IF I = {} THEN 0
    ELSE LET i == CHOOSE i \in I : TRUE
         IN  frame.rows[i].peak + SetSumPeaks(frame, I \ {i})

RECURSIVE SetSumScores(_, _)
SetSumScores(frame, I) ==
    IF I = {} THEN 0
    ELSE LET i == CHOOSE i \in I : TRUE
         IN  frame.rows[i].signalValue.v + SetSumScores(frame, I \ {i})

\* C20: collapse_peaks returns exactly one row per distinct (chr, start,
\* stop) group, in ascending order of the group key, with the columns of its
\* input in the same order; peak is the mean of the group's peaks and the
\* score is the sum (the default merge_function) of the group's scores.
C20_CollapsePeaks ==
    op = "collapse_peaks" =>
        LET in   == args.peaks
            keys == {KeyOf(in.rows[i]) : i \in 1..Len(in.rows)}
            out  == ret.val
        IN  /\ ret.outcome = "return"
            /\ out.cols = in.cols
            /\ Len(out.rows) = Cardinality(keys)
            /\ {KeyOf(out.rows[g]) : g \in 1..Len(out.rows)} = keys
            /\ \A g \in 1..(Len(out.rows) - 1) :
                   KeyLess(KeyOf(out.rows[g]), KeyOf(out.rows[g + 1]))
            /\ \A g \in 1..Len(out.rows) :
                   LET I == GroupOf(in, KeyOf(out.rows[g]))
                   IN  /\ Abs(out.rows[g].peak * Cardinality(I)
                              - SetSumPeaks(in, I)) < Cardinality(I)
                       /\ out.rows[g].signalValue = F(SetSumScores(in, I))

C20_Witness ==
    /\ op = "collapse_peaks"
    /\ ret.outcome = "return"
    /\ Len(args.peaks.rows) = 2
    /\ KeyLess(KeyOf(args.peaks.rows[2]), KeyOf(args.peaks.rows[1]))
    /\ Len(ret.val.rows) = 2
    /\ KeyOf(ret.val.rows[1]) = KeyOf(args.peaks.rows[2])

\* the replicate rows that qualify for a reference summit: same chr and
\* [max(start - size, 0), stop + size] contains the summit
QualifyingSet(summit, chr, peaks, size) ==
    {i \in 1..Len(peaks.rows) :
        LET x == peaks.rows[i]
            lo == IF x.start - size > 0 THEN x.start - size ELSE 0
        IN  /\ x.chr = chr
            /\ lo * Scale <= summit
            /\ summit <= (x.stop + size) * Scale}

\* C19: merge_peaks returns one row per distinct (chr, start, stop) of
\* ref_peaks, carrying the reference position columns; its score is the score
\* of a replicate peak whose summit is nearest the merged reference summit
\* among the qualifying replicate peaks, and NaN when none qualifies.
C19_MergePeaks ==
    op = "merge_peaks" =>
        LET ref  == args.ref_peaks
            keys == {KeyOf(ref.rows[i]) : i \in 1..Len(ref.rows)}
            out  == ret.val
        IN  /\ ret.outcome = "return"
            /\ Len(out.rows) = Cardinality(keys)
            /\ {KeyOf(out.rows[g]) : g \in 1..Len(out.rows)} = keys
            /\ \A g \in 1..Len(out.rows) :
                   LET row == out.rows[g]
                       I == GroupOf(ref, KeyOf(row))
                       Q == QualifyingSet(row.peak, row.chr, args.peaks,
                                          args.size)
                   IN  /\ row.strand = "."
                       /\ Abs(row.peak * Cardinality(I) - SetSumPeaks(ref, I))
                              < Cardinality(I)
                       /\ Q = {} => IsNaN(row.signalValue)
                       /\ Q # {} =>
                              \E i \in Q :
                                  /\ row.signalValue
                                         = args.peaks.rows[i].signalValue
                                  /\ \A j \in Q :
                                         Abs(args.peaks.rows[i].peak - row.peak)
                                         <= Abs(args.peaks.rows[j].peak - row.peak)

C19_Witness ==
    /\ op = "merge_peaks"
    /\ ret.outcome = "return"
    /\ args.size = 1
    /\ Len(ret.val.rows) = 2
    /\ Cardinality(QualifyingSet(ret.val.rows[1].peak, ret.val.rows[1].chr,
                                 args.peaks, 1)) = 2
    /\ QualifyingSet(ret.val.rows[1].peak, ret.val.rows[1].chr,
                     args.peaks, 0) = {}
    /\ ret.val.rows[1].signalValue = Num(3)
    /\ IsNaN(ret.val.rows[2].signalValue)

\* the index labels of a frame, in row order
Labels(frame) == [i \in 1..Len(frame.rows) |-> frame.rows[i].idx]

\* C18: merge_beds returns len(bed_files) - 1 frames; a reference row is
\* dropped from every frame as soon as its score is NaN in at least one
\* replicate, so the frames have the same rows and position columns and no
\* frame contains a NaN score.
C18_MergeBeds ==
    op = "merge_beds" =>
        LET beds == args.bed_files
            out  == ret.val
            one  == loc.merged_files
            kept == {g \in 0..(MaxPeaks - 1) :
                        \A k \in 1..Len(one) :
                            \E i \in 1..Len(one[k].val.rows) :
                                /\ one[k].val.rows[i].idx = g
                                /\ ~IsNaN(one[k].val.rows[i].signalValue)}
        IN  /\ ret.outcome = "return"
            /\ Len(one) = Len(beds) - 1
            /\ Len(out) = Len(beds) - 1
            /\ \A k \in 1..Len(out) :
                   /\ Range(Labels(out[k])) = kept
                   /\ Labels(out[k]) = Labels(out[1])
                   /\ \A i \in 1..Len(out[k].rows) :
                          /\ ~IsNaN(out[k].rows[i].signalValue)
                          /\ KeyOf(out[k].rows[i]) = KeyOf(out[1].rows[i])
                          /\ out[k].rows[i].peak = out[1].rows[i].peak
                          /\ out[k].rows[i].strand = out[1].rows[i].strand

C18_Witness ==
    /\ op = "merge_beds"
    /\ ret.outcome = "return"
    /\ Len(args.bed_files) = 3
    /\ Len(ret.val) = 2
    /\ Labels(ret.val[1]) = <<0>> /\ Labels(ret.val[2]) = <<0>>
    /\ NanLabels(loc.merged_files[1].val) = {}
    /\ NanLabels(loc.merged_files[2].val) = {1}

\* the positions of peaks at the smallest distance from the reference summit
Closest(ref_peak, peaks) ==
    {i \in 1..Len(peaks) :
        \A j \in 1..Len(peaks) :
            Abs(peaks[i].peak - ref_peak.peak) <= Abs(peaks[j].peak - ref_peak.peak)}

\* C21: best_peak returns start_pos plus the position of a peak whose summit
\* is closest to the reference summit and whose score is the highest among
\* the peaks at that distance; with a single row it returns start_pos.
C21_BestPeak ==
    (op = "best_peak" /\ Len(args.peaks) >= 1) =>
        /\ ret.outcome = "return"
        /\ Len(args.peaks) = 1 => ret.val = args.start_pos
        /\ LET i  == (ret.val - args.start_pos) + 1
               cl == Closest(args.ref_peak, args.peaks)
           IN  /\ i \in cl
               /\ \A j \in cl : fge(args.peaks[i].signalValue,
                                    args.peaks[j].signalValue)

\* two peaks at the same distance on either side of the reference summit,
\* the second with the higher score: the first is returned
C21_EquidistantFirstReturned ==
    /\ op = "best_peak"
    /\ Len(args.peaks) = 2
    /\ args.peaks[1].peak = 1 /\ args.peaks[2].peak = 3
    /\ flt(args.peaks[1].signalValue, args.peaks[2].signalValue)
    /\ ret = Returned(args.start_pos)

\* C22: expand_peaks returns the rows of peaks in the same order, each with
\* start = max(start - size, 0) and stop = stop + size and every other
\* column unchanged; so start >= 0 in every row and the returned interval
\* contains the given one.
C22_ExpandPeaks ==
    op = "expand_peaks" =>
        LET in  == args.peaks.rows
            out == ret.val.rows
        IN  /\ ret.outcome = "return"
            /\ ret.val.cols = args.peaks.cols
            /\ Len(out) = Len(in)
            /\ \A i \in 1..Len(in) :
                /\ out[i].start = IF in[i].start - args.size > 0
                                  THEN in[i].start - args.size ELSE 0
                /\ out[i].stop = in[i].stop + args.size
                /\ out[i] = [in[i] EXCEPT !.start = out[i].start,
                                          !.stop = out[i].stop]
                /\ out[i].start >= 0
                /\ out[i].start <= in[i].start
                /\ in[i].stop <= out[i].stop

C22_Witness ==
    /\ op = "expand_peaks"
    /\ args.size = 1
    /\ Len(args.peaks.rows) = 2
    /\ args.peaks.rows[1].start = 0 /\ ret.val.rows[1].start = 0
    /\ args.peaks.rows[2].start = 3 /\ ret.val.rows[2].start = 2
    /\ ret.val.rows[2].stop = args.peaks.rows[2].stop + 1

\* the closed intervals [start, stop] of two positions have a common point
Intersect(a, b) == \E x \in 0..MaxPos : /\ a.start <= x /\ x <= a.stop
                                        /\ b.start <= x /\ x <= b.stop

\* C23: pos_overlap returns True exactly when the two positions have equal
\* chr, equal strand and intersecting closed intervals (pos_ref.start <=
\* pos.stop and pos.start <= pos_ref.stop); it returns for string chr and
\* strand, and the outcome is the same with the arguments exchanged.
C23_PosOverlap ==
    op = "pos_overlap" =>
        LET a == args.pos_ref
            b == args.pos
            overlap == /\ ~PyNe(a.chr, b.chr)
                       /\ ~PyNe(a.strand, b.strand)
                       /\ a.start <= b.stop
                       /\ b.start <= a.stop
            swapped == pos_overlap(b, a)
        IN  /\ (ret.outcome = "return" /\ ret.val) <=> overlap
            /\ (a.start <= b.stop /\ b.start <= a.stop) <=> Intersect(a, b)
            /\ (IsStr(a.strand) /\ IsStr(b.strand)) => ret.outcome = "return"
            /\ ret.outcome = swapped.outcome
            /\ ret.err = swapped.err
            /\ ret.outcome = "return" => ret.val = swapped.val

C23_Witness ==
    /\ op = "pos_overlap"
    /\ args.pos_ref.chr = args.pos.chr
    /\ args.pos_ref.strand = "." /\ args.pos.strand = "."
    /\ args.pos_ref.stop = 1 /\ args.pos.start = 1
    /\ args.pos_ref.start = 0 /\ args.pos.stop = 2
    /\ ret.outcome = "return" /\ ret.val

\* C24: diag_pdf_frank evaluates each row with exactly one of three
\* formulas chosen from x = max(row) * theta: the 2-term series when
\* x > 25, the closed exponential form when x < 0.1 and the 4-term series
\* otherwise, x = 25 and x = 0.1 included.
C24_DiagFrankBranches ==
    op = "diag_pdf_frank" =>
        /\ ret.outcome = "return"
        /\ Len(ret.val) = NRows(args.u_values)
        /\ \A i \in 1..NRows(args.u_values) :
            LET x == loc.yt[i]
                d == Num(NCols(args.u_values))
            IN  /\ x = fmul(PyMax(args.u_values[i]), args.theta)
                /\ fgt(x, Num(25)) =>
                       /\ loc.branch[i] = "ddiagepoly2"
                       /\ ret.val[i] = ddiagepoly2(x, args.theta, d, args.is_log)
                /\ flt(x, F(Scale \div 10)) =>
                       /\ loc.branch[i] = "ddiagem1"
                       /\ ret.val[i] = ddiagem1(x, args.theta, d, args.is_log)
                /\ (fle(x, Num(25)) /\ fge(x, F(Scale \div 10))) =>
                       /\ loc.branch[i] = "ddiagepoly4"
                       /\ ret.val[i] = ddiagepoly4(x, args.theta, d, args.is_log)

\* both boundary values are reached and take the 4-term series
C24_Witness ==
    /\ op = "diag_pdf_frank"
    /\ NRows(args.u_values) = 2
    /\ args.theta = Num(25)
    /\ loc.yt[1] = Num(25) /\ loc.branch[1] = "ddiagepoly4"
    /\ loc.branch[2] = "ddiagepoly4" /\ flt(loc.yt[2], Num(25))
    /\ IsFin(ret.val[1])

C24_WitnessLow ==
    /\ op = "diag_pdf_frank"
    /\ loc.yt[1] = F(Scale \div 10) /\ loc.branch[1] = "ddiagepoly4"
    /\ NRows(args.u_values) = 2 /\ loc.branch[2] = "ddiagem1"

C24_WitnessHigh ==
    /\ op = "diag_pdf_frank"
    /\ NRows(args.u_values) = 2
    /\ loc.branch[1] = "ddiagepoly2" /\ loc.branch[2] = "ddiagepoly4"

\* C25: ipsi_frank takes for each element x exactly one of three branches:
\* the small-argument branch when |x * theta| <= 0.01 * |theta|, that is
\* x <= 0.01 for theta != 0; otherwise the near-theta branch when
\* exp(-theta) > 0 and |theta - x * theta| < 1/2; otherwise the general one.
C25_IpsiFrankBranches ==
    (op = "ipsi_frank" /\ args.theta # F(0)) =>
        LET x     == args.u_values
            theta == args.theta
            small == fle(x, F(Scale \div 100))
            near  == /\ fgt(fexp(fneg(theta)), F(0))
                     /\ flt(fabs(fsub(theta, fmul(x, theta))), F(Scale \div 2))
        IN  /\ ret.outcome = "return"
            /\ small => loc.branch = 1
            /\ (~small /\ near) => loc.branch = 2
            /\ (~small /\ ~near) => loc.branch = 3

\* x = 1/3 > 0.01 with theta = 200 takes the small-argument branch
C25_LargeXSmallBranch ==
    /\ op = "ipsi_frank"
    /\ args.theta = F(200 * Scale)
    /\ fgt(args.u_values, F(Scale \div 100))
    /\ flt(args.u_values, F(Scale \div 2))
    /\ loc.branch = 1

\* how many of the conditions conds hold
HoldCount(conds) == Cardinality({i \in 1..Len(conds) : conds[i]})

\* C26: psi_frank takes exactly one of four branches, chosen from theta
\* alone: theta > 0; theta == 0, giving exp(-y); theta < log(eps); and the
\* general form for log(eps) <= theta < 0. The conditions exclude one
\* another and cover every theta.
C26_PsiFrankBranches ==
    op = "psi_frank" =>
        LET theta == args.theta
            y     == args.u_values
            conds == <<fgt(theta, F(0)),
                       theta = F(0),
                       flt(theta, LogEps),
                       fge(theta, LogEps) /\ flt(theta, F(0))>>
        IN  /\ ret.outcome = "return"
            /\ HoldCount(conds) = 1
            /\ conds[loc.branch]
            /\ ret.val = psi_frank_form(y, theta, loc.branch)
            /\ loc.branch = 2 => ret.val = fexp(fneg(y))

\* theta = log(eps) takes the general form, a theta below it the asymptotic
C26_Witness ==
    /\ op = "psi_frank"
    /\ args.theta = LogEps
    /\ loc.branch = 4
    /\ ret.val = psi_frank_form(args.u_values, LogEps, 4)
    /\ ret.val # psi_frank_form(args.u_values, LogEps, 3)

\* C27: log1mexp evaluates every element x <= ln 2, ln 2 included, as
\* log(-expm1(-x)) and every element x > ln 2 as log1p(-exp(-x)), each
\* element of a vector by its own value.
C27_Log1mexpBranch ==
    op = "log1mexp" =>
        /\ ret.outcome = "return"
        /\ Len(ret.val) = Len(args.x)
        /\ \A i \in 1..Len(args.x) :
            /\ fle(args.x[i], F(Ln2)) =>
                   /\ loc.branch[i] = "expm1"
                   /\ ret.val[i] = log1mexp_expm1(args.x[i])
            /\ fgt(args.x[i], F(Ln2)) =>
                   /\ loc.branch[i] = "exp"
                   /\ ret.val[i] = log1mexp_exp(args.x[i])

\* a vector whose first element is ln 2 and whose second is above it
C27_Witness ==
    /\ op = "log1mexp"
    /\ Len(args.x) = 2
    /\ args.x[1] = F(Ln2) /\ loc.branch[1] = "expm1"
    /\ fgt(args.x[2], F(Ln2)) /\ loc.branch[2] = "exp"
    /\ IsFin(ret.val[1]) /\ IsFin(ret.val[2])

\* the sign the rule of C28 gives term j of d for alpha, as an integer
SignRule(j, d, alpha) ==
    IF alpha.v = Scale
    THEN (IF j = d THEN 1 ELSE IF (d - j) % 2 = 0 THEN 1 ELSE -1)
    ELSE IF (alpha.v * j) % Scale = 0 THEN 0
    ELSE IF (j - ((alpha.v * j + Scale - 1) \div Scale)) % 2 = 0 THEN 1
    ELSE -1

\* C28: pdf_gumbel evaluates for every row exactly d signed terms, term j
\* with the sign s_j: for alpha = 1, +1 when j = d and (-1)^(d - j)
\* otherwise; for alpha < 1, (-1)^(j - ceil(alpha j)) when alpha j is not an
\* integer and 0 when it is. The d terms of a row go together to lssum.
C28_GumbelSignedTerms ==
    (op = "pdf_gumbel" /\ ret.outcome = "return") =>
        LET d == NCols(args.u_values)
        IN  /\ Len(loc.s) = d
            /\ \A j \in 1..d : loc.s[j] = Num(SignRule(j, d, loc.alpha))
            /\ \A i \in 1..NRows(args.u_values) :
                /\ Len(loc.res[i]) = d
                /\ \A j \in 1..d :
                       loc.res[i][j] =
                           fmul(loc.s[j],
                                fexp(log_polyg_term(j, loc.lx[i], loc.alpha, d)))
                /\ ret.val[i] =
                       LET lg == gumbel_dcopula(args.u_values[i], args.theta,
                                                loc.alpha, loc.lx[i],
                                                lssum(loc.res[i]))
                       IN  IF args.is_log THEN lg ELSE fexp(lg)

\* alpha = 1/2 and d = 3: the signs are +1, 0 and -1
C28_Witness ==
    /\ op = "pdf_gumbel"
    /\ ret.outcome = "return"
    /\ loc.alpha = F(Scale \div 2)
    /\ loc.s = <<F(Scale), F(0), F(-Scale)>>
    /\ flt(loc.res[1][3], F(0))
    /\ IsFin(ret.val[1])

\* C29: in pdf_gumbel the assertions of s_j hold on every evaluation when
\* theta >= 1 and U has at least one column, and an assertion fails, so the
\* call raises instead of returning, for every 0 < theta < 1.
C29_GumbelAssertions ==
    (op = "pdf_gumbel" /\ NCols(args.u_values) >= 1) =>
        LET d == NCols(args.u_values)
        IN  /\ fge(args.theta, F(Scale)) =>
                   /\ ret.outcome = "return"
                   /\ \A j \in 1..d : s_j_asserts(j, loc.alpha, Num(d))
            /\ (fgt(args.theta, F(0)) /\ flt(args.theta, F(Scale))) =>
                   /\ ret.outcome = "raise"
                   /\ ret.err = "AssertionError"
                   /\ ~s_j_asserts(1, loc.alpha, Num(d))

C29_Witness ==
    /\ op = "pdf_gumbel"
    /\ NCols(args.u_values) = 2
    /\ args.theta = F(Scale \div 2)
    /\ loc.alpha = Num(2)
    /\ ret.outcome = "raise" /\ ret.err = "AssertionError"

RECURSIVE SumInts(_, _)
SumInts(row, i) == IF i = 0 THEN 0 ELSE row[i] + SumInts(row, i - 1)

\* C30: for every n >= 1 the row returned by eulerian_all(n) has n entries,
\* each a strictly positive integer, is symmetric (entry k equals entry
\* n - 1 - k), starts and ends with 1, and sums to n!.
C30_EulerianRowShape ==
    (op = "eulerian_all" /\ args.n >= 1) =>
        /\ ret.outcome = "return"
        /\ Len(ret.val) = args.n
        /\ \A k \in 0..(args.n - 1) :
               /\ ret.val[k + 1] \in Nat \ {0}
               /\ ret.val[k + 1] = ret.val[(args.n - 1 - k) + 1]
        /\ ret.val[1] = 1
        /\ ret.val[args.n] = 1
        /\ SumInts(ret.val, args.n) = IntFactorial(args.n)

\* the row of n = 4: 1, 11, 11, 1, with sum 24
C30_Witness ==
    /\ op = "eulerian_all"
    /\ args.n = 4
    /\ ret = Returned(<<1, 11, 11, 1>>)
    /\ SumInts(ret.val, 4) = 24

====
